---- MODULE Spec2Model ----
(***************************************************************************)
(* State-machine model of the SurveillanceFrame control backbone:          *)
(*   - miscellaneous/timer.py          Timer                               *)
(*   - objects/power_manager.py        PowerSchedule, schedule resolution  *)
(*   - objects/event_dispatcher.py     EventDispatcher and the channel     *)
(*   - objects/threaded_object*.py     ThreadedObject and its supervisor   *)
(*   - surveillance_frame.py           get_schedules, main                 *)
(* Each subsystem has its own specification over the shared variables; a    *)
(* specification leaves the variables of the other subsystems unchanged.   *)
(***************************************************************************)
EXTENDS Integers, Sequences, FiniteSets, TLC

(***************************************************************************)
(* Bounds of the model.                                                    *)
(***************************************************************************)
\* time.time() runs from 1 to MaxClock in the timer specification
MaxClock == 7
\* longest duration a timer is armed with in the timer specification
MaxDuration == 3
\* number of HH:MM marks of the (shortened) day: marks 0 .. MaxMinute-1
MaxMinute == 3
\* clock instants per minute (datetime.now() is finer than HH:MM)
TicksPerMinute == 2
\* longest schedule list
MaxSchedules == 2
\* number of events the producers put on the channel in the dispatch specification
MaxEvents == 3
\* in the controller specification time.time() is looked at up to MaxShort camera-stream
\* timeouts and MaxLong display-power timeouts after the start
MaxShort == 2
MaxLong == 1
\* the controller emits at most MaxPuts control events
MaxPuts == 6

VARIABLES
    \* ---- Timer (miscellaneous/timer.py) ----
    clock,          \* value of time.time()
    timer,          \* the Timer object: [seconds, start_time]
    timer_op,       \* last operation called on the timer: "init", "start", "stop"
    armed_at,       \* history: time.time() at the last start() call (0: never started)
    armed_for,      \* history: the argument of the last start() call
    \* ---- schedule resolution (objects/power_manager.py) ----
    schedules,      \* PowerManager.__schedules: None (is_none) or a list of PowerSchedule
    now_weekday,    \* datetime.now().weekday()
    now_time,       \* datetime.now().time(), in clock instants since 00:00
    resolved,       \* outcome of the last __get_current_mode() call at this instant
    \* ---- communication queue and EventDispatcher (objects/event_dispatcher.py) ----
    queue,          \* the communication Queue: events put and not yet got, oldest first
    n_put,          \* history: number of events put so far (the next event gets id n_put + 1)
    put_log,        \* history: producer of each event, in the order of the put() calls
    ed_pc,          \* position of __dispatch_events: "while", "empty", "get", "for", "done"
    ed_event,       \* the event __dispatch_events is delivering
    ed_i,           \* position of its for loop in the object list
    got_log,        \* history: ids of the events got from the queue, in order
    delivered,      \* history: per object, ids of the events its dispatch() was called with
    http_response,  \* response code of the last HTTP request (0: none yet)
    http_path,      \* self.path of the last HTTP request ("none": none yet)
    \* ---- actuators (objects/display_power.py, slideshow.py, camera_stream.py) ----
    actuator,       \* per actuator, whether it is switched on / its process runs
    \* ---- PowerManager latches (objects/power_manager.py) ----
    in_button_press, in_camera_motion, in_sensor_motion,
    out_camera_stream, out_display_power, out_slideshow,
    \* ---- threads (objects/threaded_object.py) ----
    thread,         \* per task: "none" (not started), "alive", "exited"
    shall_run,      \* per task: ThreadedObject.__shall_run
    worker_pc,      \* position of the loop of PowerManager and Notifier: "while", "body"
    \* ---- CameraMotion (objects/camera_motion.py) ----
    cm_pc,          \* position of __start_httpd: "create", "serve", "loop", "stopped"
    httpd,          \* CameraMotion.__httpd: [created, shutdown_request, is_shut_down]
    \* ---- ThreadedObjectSupervisor (objects/threaded_object_supervisor.py) ----
    sup_pc,         \* position of __supervise_threaded_objects:
                    \*   "while", "poll", "sleep", "terminate", "done"
    sup_i,          \* position of its for loops in the list of watched tasks
    term_count,     \* history: per watched task, Terminate events the supervisor dispatched
    \* ---- dispatch(Event(Signal.TERMINATE)) calls in progress ----
    call,           \* per caller ("supervisor", "main"): [pc, target] and the history
                    \*   saw_alive (is_alive() was true), flag_before (the target's run
                    \*   flag at that test), joined (join() was called)
    \* ---- main (surveillance_frame.py) ----
    main_pc,        \* position of main
    \* ---- PowerManager.__worker (objects/power_manager.py) ----
    pm_pc,          \* position of __worker: "start", "while", "display_init", "display",
                    \*   "camera", "reset", "done"
    current_mode,   \* PowerManager.__current_mode: None or a mode
    initialize,     \* the local initialize of the tick in progress
    camera_stream_timer,    \* PowerManager.__camera_stream_timer
    display_power_timer,    \* PowerManager.__display_power_timer
    motion_timeout, \* int(arguments.motion_timeout), as main passes it to PowerManager
    \* ---- startup (surveillance_frame.py) ----
    arg_listen,     \* arguments.listen, a string
    arg_schedule,   \* arguments.schedule: None (is_none) or a list of strings
    exit_status,    \* the exit status of the process once main_pc.at = "exited"
    \* ---- what the handlers of a tick have observed (history, not program state) ----
    tick_latches,   \* the input latches as they were when the tick in progress began
    display_latches, \* the input latches as the display-power handler of the tick found them
    press_read      \* the handlers that have run since the latched press was dispatched

timer_vars == <<clock, timer, timer_op, armed_at, armed_for>>
sched_vars == <<schedules, now_weekday, now_time, resolved>>
queue_vars == <<queue, n_put, put_log, http_response, http_path>>
ed_vars == <<ed_pc, ed_event, ed_i, got_log, delivered, actuator>>
in_vars == <<in_button_press, in_camera_motion, in_sensor_motion>>
out_vars == <<out_camera_stream, out_display_power, out_slideshow>>
thread_vars == <<thread, shall_run>>
cm_vars == <<cm_pc, httpd>>
sup_vars == <<sup_pc, sup_i, term_count>>
life_vars == <<worker_pc, cm_vars, sup_vars, call, main_pc>>
pm_vars == <<pm_pc, current_mode, initialize, camera_stream_timer, display_power_timer,
             motion_timeout>>
startup_vars == <<arg_listen, arg_schedule, exit_status>>
obs_vars == <<tick_latches, display_latches, press_read>>
system_vars == <<queue_vars, ed_vars, in_vars, out_vars, thread_vars, life_vars, pm_vars,
                 startup_vars, obs_vars>>
vars == <<timer_vars, sched_vars, queue_vars, ed_vars, in_vars, out_vars, thread_vars,
          life_vars, pm_vars, startup_vars>>

None == "None"

(***************************************************************************)
(* Timer                                                                   *)
(***************************************************************************)
\* Timer.__init__
Timer_init == [seconds |-> 0, start_time |-> 0]

\* Timer.start(seconds) called when time.time() = now
Timer_start(seconds, now) == [seconds |-> seconds, start_time |-> now]

\* Timer.stop()
Timer_stop == [seconds |-> 0, start_time |-> 0]

\* is_expired with the comparison weakened to >= (used to test the claims)
Timer_is_expired_ge(t, now) ==
    IF t.start_time = 0 \/ t.seconds = 0
    THEN TRUE
    ELSE now >= t.start_time + t.seconds

\* Timer.is_expired() called when time.time() = now
Timer_is_expired(t, now) ==
    IF t.start_time = 0 \/ t.seconds = 0
    THEN TRUE
    ELSE now > t.start_time + t.seconds

TimerInitVars ==
    /\ clock = 1
    /\ timer = Timer_init
    /\ timer_op = "init"
    /\ armed_at = 0
    /\ armed_for = 0

\* a caller arms the timer
TimerStart ==
    \E d \in 0..MaxDuration :
        /\ timer' = Timer_start(d, clock)
        /\ timer_op' = "start"
        /\ armed_at' = clock
        /\ armed_for' = d
        /\ UNCHANGED clock

\* a caller stops the timer
TimerStop ==
    /\ timer' = Timer_stop
    /\ timer_op' = "stop"
    /\ UNCHANGED <<clock, armed_at, armed_for>>

\* time passes
ClockAdvance ==
    /\ clock < MaxClock
    /\ clock' = clock + 1
    /\ UNCHANGED <<timer, timer_op, armed_at, armed_for>>

(***************************************************************************)
(* PowerSchedule and schedule resolution                                   *)
(***************************************************************************)
ALWAYS_ON == "ALWAYS_ON"
MOTION_SENSOR == "MOTION_SENSOR"
CAMERA_MOTION == "CAMERA_MOTION"
Modes == {ALWAYS_ON, MOTION_SENSOR, CAMERA_MOTION}

\* outcome of a resolution that raised AssertionError (it ends the controller thread)
AssertionError == "AssertionError"

\* datetime weekday(): 0 Monday .. 6 Sunday
DaysPerWeek == 7
Weekdays == 0..(DaysPerWeek - 1)

\* the weekday groups get_schedules maps "weekday", "weekend" and "anyday" to
PowerSchedule_WEEKDAY == 7
PowerSchedule_WEEKEND == 8
PowerSchedule_ANYDAY == 9
WeekdayGroups == {PowerSchedule_WEEKDAY, PowerSchedule_WEEKEND, PowerSchedule_ANYDAY}

\* datetime.time(h, m, 0) of the HH:MM mark m, in clock instants since 00:00
TimeOfMark(m) == m * TicksPerMinute
DayInstants == 0..(MaxMinute * TicksPerMinute - 1)
Midnight == TimeOfMark(0)

\* get_schedules: the end-time check of one schedule string
get_schedules_end_ok(start, end) == ~(end # Midnight /\ start >= end)

\* get_schedules: the PowerSchedule objects one valid schedule string can yield
ParsedSchedules ==
    { p \in [weekday : Weekdays \cup WeekdayGroups,
             start : { TimeOfMark(m) : m \in 0..(MaxMinute - 1) },
             end : { TimeOfMark(m) : m \in 0..(MaxMinute - 1) },
             mode : Modes] :
        get_schedules_end_ok(p.start, p.end) }

\* get_schedules: None without --schedule, else the list in declaration order
ScheduleLists ==
    { [is_none |-> TRUE, list |-> <<>>] } \cup
    { [is_none |-> FALSE, list |-> l] :
        l \in UNION { [1..n -> ParsedSchedules] : n \in 0..MaxSchedules } }

\* the window test of __get_current_mode (power_manager.py line 140)
schedule_matches(schedule, weekday, time) ==
    /\ schedule.weekday = weekday
    /\ schedule.start <= time
    /\ time <= schedule.end

\* the for loop of __get_current_mode from list position i on
RECURSIVE get_current_mode_loop(_, _, _, _)
get_current_mode_loop(list, i, weekday, time) ==
    IF i > Len(list) THEN ALWAYS_ON
    ELSE IF ~(list[i].weekday < 7) THEN AssertionError
    ELSE IF ~(list[i].start < list[i].end) THEN AssertionError
    ELSE IF schedule_matches(list[i], weekday, time) THEN list[i].mode
    ELSE get_current_mode_loop(list, i + 1, weekday, time)

\* PowerManager.__get_current_mode
get_current_mode(s, weekday, time) ==
    IF s.is_none \/ s.list = <<>>
    THEN ALWAYS_ON
    ELSE get_current_mode_loop(s.list, 1, weekday, time)

SchedInitVars ==
    /\ schedules = [is_none |-> TRUE, list |-> <<>>]
    /\ now_weekday = 0
    /\ now_time = 0
    /\ resolved = None

\* the wall clock moves on by one instant
WallClockAdvance ==
    /\ \/ /\ now_time + 1 \in DayInstants
          /\ now_time' = now_time + 1
          /\ UNCHANGED now_weekday
       \/ /\ now_time + 1 \notin DayInstants
          /\ now_time' = 0
          /\ now_weekday' = (now_weekday + 1) % DaysPerWeek
    /\ resolved' = None
    /\ UNCHANGED schedules

\* the controller resolves the mode at the current instant
GetCurrentMode ==
    /\ resolved = None
    /\ resolved' = get_current_mode(schedules, now_weekday, now_time)
    /\ UNCHANGED <<schedules, now_weekday, now_time>>

\* the threaded objects of the application
Tasks == {"camera_motion", "power_manager", "notifier", "event_dispatcher", "supervisor"}

(***************************************************************************)
(* Signals, events and the communication queue                             *)
(***************************************************************************)
TERMINATE == "TERMINATE"
BUTTON_PRESSED == "BUTTON_PRESSED"
CAMERA_MOTION_CHANGED == "CAMERA_MOTION_CHANGED"
SENSOR_MOTION_CHANGED == "SENSOR_MOTION_CHANGED"
CAMERA_STREAM_CONTROL == "CAMERA_STREAM_CONTROL"
DISPLAY_POWER_CONTROL == "DISPLAY_POWER_CONTROL"
SLIDESHOW_CONTROL == "SLIDESHOW_CONTROL"

\* Button press types; NoPress is the None of PowerManager.__in_button_press
NoPress == 0
SHORT_PRESS == 1
LONG_PRESS == 2

\* An event object: id is its identity (the number of its put() call); press is the
\* press type of an EventButtonPressed; flag is motion() of an EventMotionChanged and
\* enable() of an EventControl.
EventButtonPressed(id, press_type) ==
    [id |-> id, signal |-> BUTTON_PRESSED, press |-> press_type, flag |-> FALSE]
EventMotionChanged(id, signal, motion) ==
    [id |-> id, signal |-> signal, press |-> NoPress, flag |-> motion]
EventControl(id, signal, enable) ==
    [id |-> id, signal |-> signal, press |-> NoPress, flag |-> enable]
NoEvent == [id |-> 0, signal |-> "none", press |-> NoPress, flag |-> FALSE]

\* communication_queue.put(event) by the named producer
Queue_put(event, producer) ==
    /\ queue' = Append(queue, event)
    /\ n_put' = n_put + 1
    /\ put_log' = Append(put_log, producer)

(***************************************************************************)
(* Producers                                                               *)
(***************************************************************************)
\* Button.__button_state_change on release: a long or a short press
Button_button_state_change ==
    \E press_type \in {SHORT_PRESS, LONG_PRESS} :
        /\ n_put < MaxEvents
        /\ Queue_put(EventButtonPressed(n_put + 1, press_type), "button")
        /\ UNCHANGED <<http_response, http_path, ed_vars, in_vars, out_vars, thread_vars>>

\* MotionSensor.__motion_detected: motion started or ended
MotionSensor_motion_detected ==
    \E high \in BOOLEAN :
        /\ n_put < MaxEvents
        /\ Queue_put(EventMotionChanged(n_put + 1, SENSOR_MOTION_CHANGED, high), "motion_sensor")
        /\ UNCHANGED <<http_response, http_path, ed_vars, in_vars, out_vars, thread_vars>>

HttpPaths == {"/?Message=start", "/?Message=stop", "/?Message=bogus"}

\* do_GET taking every path but start for stop (used to test the claims)
RequestHandler_do_GET_stop_by_default ==
    \E path \in HttpPaths :
        /\ n_put < MaxEvents
        /\ http_path' = path
        /\ Queue_put(EventMotionChanged(n_put + 1, CAMERA_MOTION_CHANGED,
                                        path = "/?Message=start"), "camera_motion")
        /\ http_response' = 200
        /\ UNCHANGED <<ed_vars, in_vars, out_vars, thread_vars>>

\* CameraMotion.RequestHandler.do_GET
RequestHandler_do_GET ==
    \E path \in HttpPaths :
        /\ n_put < MaxEvents
        /\ http_path' = path
        /\ IF path = "/?Message=start"
           THEN /\ Queue_put(EventMotionChanged(n_put + 1, CAMERA_MOTION_CHANGED, TRUE), "camera_motion")
                /\ http_response' = 200
           ELSE IF path = "/?Message=stop"
           THEN /\ Queue_put(EventMotionChanged(n_put + 1, CAMERA_MOTION_CHANGED, FALSE), "camera_motion")
                /\ http_response' = 200
           ELSE /\ http_response' = 400
                /\ UNCHANGED <<queue, n_put, put_log>>
        /\ UNCHANGED <<ed_vars, in_vars, out_vars, thread_vars>>

\* PowerManager.__control_camera_stream
control_camera_stream(enable) ==
    /\ Queue_put(EventControl(n_put + 1, CAMERA_STREAM_CONTROL, enable), "power_manager")
    /\ out_camera_stream' = enable

\* the display commanded without the latch following (used to test the claims)
control_display_power_latch_kept(enable) ==
    /\ Queue_put(EventControl(n_put + 1, DISPLAY_POWER_CONTROL, enable), "power_manager")
    /\ UNCHANGED out_display_power

\* PowerManager.__control_display_power
control_display_power(enable) ==
    /\ Queue_put(EventControl(n_put + 1, DISPLAY_POWER_CONTROL, enable), "power_manager")
    /\ out_display_power' = enable

\* PowerManager.__control_slideshow
control_slideshow(enable) ==
    /\ Queue_put(EventControl(n_put + 1, SLIDESHOW_CONTROL, enable), "power_manager")
    /\ out_slideshow' = enable

\* the controller's thread emits one control event
PowerManager_control ==
    \E enable \in BOOLEAN :
        /\ n_put < MaxEvents
        /\ thread["power_manager"] = "alive"
        /\ \/ control_camera_stream(enable) /\ UNCHANGED <<out_display_power, out_slideshow>>
           \/ control_display_power(enable) /\ UNCHANGED <<out_camera_stream, out_slideshow>>
           \/ control_slideshow(enable) /\ UNCHANGED <<out_camera_stream, out_display_power>>
        /\ UNCHANGED <<http_response, http_path, ed_vars, in_vars, thread_vars>>

(***************************************************************************)
(* Consumers: the objects main registers with the dispatcher, in order     *)
(***************************************************************************)
Objects == << "display_power", "slideshow", "camera_stream", "camera_motion",
              "motion_sensor", "button", "power_manager", "notifier" >>

\* an actuator that its control event can switch on but not off (used to test the claims)
Actuator_dispatch_on_only(object, signal, event) ==
    IF event.signal = signal /\ event.flag
    THEN actuator' = [actuator EXCEPT ![object] = TRUE]
    ELSE UNCHANGED actuator

\* DisplayPower.dispatch, Slideshow.dispatch, CameraStream.dispatch: the control event
\* of the actuator switches it; PassiveObject.dispatch ignores everything else
Actuator_dispatch(object, signal, event) ==
    IF event.signal = signal
    THEN actuator' = [actuator EXCEPT ![object] = event.flag]
    ELSE UNCHANGED actuator

\* a sensor-motion event written to both motion latches (used to test the claims)
PowerManager_dispatch_motion_shared(event) ==
    IF event.signal = BUTTON_PRESSED
    THEN /\ in_button_press' = event.press
         /\ UNCHANGED <<in_camera_motion, in_sensor_motion>>
    ELSE IF event.signal = CAMERA_MOTION_CHANGED
    THEN /\ in_camera_motion' = event.flag
         /\ UNCHANGED <<in_button_press, in_sensor_motion>>
    ELSE IF event.signal = SENSOR_MOTION_CHANGED
    THEN /\ in_sensor_motion' = event.flag
         /\ in_camera_motion' = event.flag
         /\ UNCHANGED in_button_press
    ELSE UNCHANGED in_vars

\* PowerManager.dispatch for the events the queue carries
PowerManager_dispatch(event) ==
    IF event.signal = BUTTON_PRESSED
    THEN /\ in_button_press' = event.press
         /\ UNCHANGED <<in_camera_motion, in_sensor_motion>>
    ELSE IF event.signal = CAMERA_MOTION_CHANGED
    THEN /\ in_camera_motion' = event.flag
         /\ UNCHANGED <<in_button_press, in_sensor_motion>>
    ELSE IF event.signal = SENSOR_MOTION_CHANGED
    THEN /\ in_sensor_motion' = event.flag
         /\ UNCHANGED <<in_button_press, in_camera_motion>>
    ELSE UNCHANGED in_vars

\* element.dispatch(event) for the object at position i of the list
Object_dispatch(i, event) ==
    /\ delivered' = [delivered EXCEPT ![i] = Append(@, event.id)]
    /\ IF Objects[i] = "display_power"
       THEN Actuator_dispatch("display_power", DISPLAY_POWER_CONTROL, event)
       ELSE IF Objects[i] = "slideshow"
       THEN Actuator_dispatch("slideshow", SLIDESHOW_CONTROL, event)
       ELSE IF Objects[i] = "camera_stream"
       THEN Actuator_dispatch("camera_stream", CAMERA_STREAM_CONTROL, event)
       ELSE UNCHANGED actuator
    /\ IF Objects[i] = "power_manager"
       THEN PowerManager_dispatch(event)
       ELSE UNCHANGED in_vars

(***************************************************************************)
(* EventDispatcher.__dispatch_events                                       *)
(***************************************************************************)
\* the loop going on after the run flag was cleared and the thread counted as ended
\* (used to test the claims)
ed_while_keeps_delivering ==
    /\ ed_pc = "while"
    /\ ed_pc' = "empty"
    /\ thread' = IF shall_run["event_dispatcher"]
                 THEN thread
                 ELSE [thread EXCEPT !["event_dispatcher"] = "exited"]
    /\ UNCHANGED <<ed_event, ed_i, got_log, delivered, actuator, shall_run,
                   queue_vars, in_vars, out_vars>>

\* while self.shall_run():
ed_while ==
    /\ thread["event_dispatcher"] = "alive"
    /\ ed_pc = "while"
    /\ IF shall_run["event_dispatcher"]
       THEN /\ ed_pc' = "empty"
            /\ UNCHANGED thread
       ELSE /\ ed_pc' = "done"
            /\ thread' = [thread EXCEPT !["event_dispatcher"] = "exited"]
    /\ UNCHANGED <<ed_event, ed_i, got_log, delivered, actuator, shall_run,
                   queue_vars, in_vars, out_vars>>

\* the loop going on to get() without the test of empty() (used to test the claims)
ed_empty_not_tested ==
    /\ ed_pc = "empty"
    /\ ed_pc' = "get"
    /\ UNCHANGED <<ed_event, ed_i, got_log, delivered, actuator, thread_vars,
                   queue_vars, in_vars, out_vars>>

\* if self.__communication_queue.empty(): sleep and continue
ed_empty ==
    /\ ed_pc = "empty"
    /\ ed_pc' = IF queue = <<>> THEN "while" ELSE "get"
    /\ UNCHANGED <<ed_event, ed_i, got_log, delivered, actuator, thread_vars,
                   queue_vars, in_vars, out_vars>>

\* get() taking the newest event instead of the oldest (used to test the claims)
ed_get_newest ==
    /\ ed_pc = "get"
    /\ queue # <<>>
    /\ ed_event' = queue[Len(queue)]
    /\ queue' = SubSeq(queue, 1, Len(queue) - 1)
    /\ got_log' = Append(got_log, queue[Len(queue)].id)
    /\ ed_i' = 1
    /\ ed_pc' = "for"
    /\ UNCHANGED <<delivered, actuator, thread_vars, n_put, put_log, http_response, http_path,
                   in_vars, out_vars>>

\* event = self.__communication_queue.get(): blocks while the queue is empty
ed_get ==
    /\ ed_pc = "get"
    /\ queue # <<>>
    /\ ed_event' = Head(queue)
    /\ queue' = Tail(queue)
    /\ got_log' = Append(got_log, Head(queue).id)
    /\ ed_i' = 1
    /\ ed_pc' = "for"
    /\ UNCHANGED <<delivered, actuator, thread_vars, n_put, put_log, http_response, http_path,
                   in_vars, out_vars>>

\* the for loop giving up once the run flag is cleared (used to test the claims)
ed_for_until_stopped ==
    /\ ed_pc = "for"
    /\ IF shall_run["event_dispatcher"]
       THEN /\ Object_dispatch(ed_i, ed_event)
            /\ IF ed_i < Len(Objects)
               THEN ed_i' = ed_i + 1 /\ UNCHANGED <<ed_pc, ed_event>>
               ELSE ed_i' = 0 /\ ed_pc' = "while" /\ ed_event' = NoEvent
       ELSE /\ ed_i' = 0 /\ ed_pc' = "while" /\ ed_event' = NoEvent
            /\ UNCHANGED <<delivered, actuator, in_vars>>
    /\ UNCHANGED <<got_log, thread_vars, queue_vars, out_vars>>

\* for element in self.__objects: element.dispatch(event), one element per step
ed_for ==
    /\ ed_pc = "for"
    /\ Object_dispatch(ed_i, ed_event)
    /\ IF ed_i < Len(Objects)
       THEN ed_i' = ed_i + 1 /\ UNCHANGED <<ed_pc, ed_event>>
       ELSE ed_i' = 0 /\ ed_pc' = "while" /\ ed_event' = NoEvent
    /\ UNCHANGED <<got_log, thread_vars, queue_vars, out_vars>>

\* ThreadedObject.dispatch(Terminate) on the dispatcher: its run flag is cleared
EventDispatcher_terminate ==
    /\ thread["event_dispatcher"] = "alive"
    /\ shall_run["event_dispatcher"]
    /\ shall_run' = [shall_run EXCEPT !["event_dispatcher"] = FALSE]
    /\ UNCHANGED <<thread, queue_vars, ed_vars, in_vars, out_vars>>

QueueInitVars ==
    /\ queue = <<>>
    /\ n_put = 0
    /\ put_log = <<>>
    /\ http_response = 0
    /\ http_path = "none"

DispatcherInitVars ==
    /\ ed_pc = "while"
    /\ ed_event = NoEvent
    /\ ed_i = 0
    /\ got_log = <<>>
    /\ delivered = [i \in 1..Len(Objects) |-> <<>>]
    /\ actuator = [a \in {"display_power", "slideshow", "camera_stream"} |-> FALSE]

\* the class-level defaults of PowerManager
LatchInitVars ==
    /\ in_button_press = NoPress
    /\ in_camera_motion = FALSE
    /\ in_sensor_motion = FALSE
    /\ out_camera_stream = FALSE
    /\ out_display_power = FALSE
    /\ out_slideshow = FALSE

\* every task has been started by main
ThreadsStarted ==
    /\ thread = [t \in Tasks |-> "alive"]
    /\ shall_run = [t \in Tasks |-> TRUE]

(***************************************************************************)
(* ThreadedObject: thread lifecycle and the Terminate dispatch              *)
(***************************************************************************)
\* the tasks main hands to the supervisor, in order
Watched == << "camera_motion", "power_manager", "notifier", "event_dispatcher" >>

\* the threads that call dispatch(Event(Signal.TERMINATE))
Callers == {"supervisor", "main"}

NoCall == [pc |-> "idle", target |-> "none", saw_alive |-> FALSE, joined |-> FALSE,
           flag_before |-> FALSE]

\* ThreadedObject.start
ThreadedObject_start(task) ==
    /\ shall_run' = [shall_run EXCEPT ![task] = TRUE]
    /\ thread' = [thread EXCEPT ![task] = "alive"]

\* ThreadedObject.is_running
is_running(task) == thread[task] = "alive"

\* a caller enters target.dispatch(Event(Signal.TERMINATE)); CameraMotion overrides
\* dispatch, the other tasks fall through to ThreadedObject.dispatch
dispatch_enter(caller, target) ==
    call' = [call EXCEPT ![caller] =
                [pc |-> IF target = "camera_motion" THEN "cm_check" ELSE "check",
                 target |-> target, saw_alive |-> FALSE, joined |-> FALSE,
                 flag_before |-> FALSE]]

\* CameraMotion.dispatch: if running and the server exists, httpd.shutdown() is
\* entered (it sets the shutdown request and then waits for serve_forever to end)
CameraMotion_dispatch(caller) ==
    /\ call[caller].pc = "cm_check"
    /\ IF is_running("camera_motion") /\ httpd.created
       THEN /\ httpd' = [httpd EXCEPT !.shutdown_request = TRUE]
            /\ call' = [call EXCEPT ![caller].pc = "cm_shutdown"]
       ELSE /\ call' = [call EXCEPT ![caller].pc = "check"]
            /\ UNCHANGED httpd
    /\ UNCHANGED <<thread_vars, worker_pc, cm_pc, sup_vars, main_pc>>

\* CameraMotion.dispatch: httpd.shutdown() returns once serve_forever has ended, then
\* server_close() and super().dispatch(event)
CameraMotion_dispatch_shutdown(caller) ==
    /\ call[caller].pc = "cm_shutdown"
    /\ httpd.is_shut_down
    /\ call' = [call EXCEPT ![caller].pc = "check"]
    /\ UNCHANGED <<thread_vars, worker_pc, cm_vars, sup_vars, main_pc>>

\* ThreadedObject.dispatch: the test of thread_handle.is_alive()
ThreadedObject_dispatch(caller) ==
    /\ call[caller].pc = "check"
    /\ IF thread[call[caller].target] = "alive"
       THEN call' = [call EXCEPT ![caller].pc = "stop", ![caller].saw_alive = TRUE,
                                 ![caller].flag_before = shall_run[call[caller].target]]
       ELSE call' = [call EXCEPT ![caller].pc = "return",
                                 ![caller].flag_before = shall_run[call[caller].target]]
    /\ UNCHANGED <<thread_vars, worker_pc, cm_vars, sup_vars, main_pc>>

\* a dispatch that clears the run flag and returns at once (used to test the claims)
ThreadedObject_dispatch_stop_and_return(caller) ==
    /\ call[caller].pc = "stop"
    /\ shall_run' = [shall_run EXCEPT ![call[caller].target] = FALSE]
    /\ call' = [call EXCEPT ![caller].pc = "return"]
    /\ UNCHANGED <<thread, worker_pc, cm_vars, sup_vars, main_pc>>

\* ThreadedObject.dispatch: self.__shall_run = False
ThreadedObject_dispatch_stop(caller) ==
    /\ call[caller].pc = "stop"
    /\ shall_run' = [shall_run EXCEPT ![call[caller].target] = FALSE]
    /\ call' = [call EXCEPT ![caller].pc = "join"]
    /\ UNCHANGED <<thread, worker_pc, cm_vars, sup_vars, main_pc>>

\* a join that does not wait for the thread (used to test the claims)
ThreadedObject_dispatch_no_join(caller) ==
    /\ call[caller].pc = "join"
    /\ call' = [call EXCEPT ![caller].pc = "return", ![caller].joined = TRUE]
    /\ UNCHANGED <<thread_vars, worker_pc, cm_vars, sup_vars, main_pc>>

\* ThreadedObject.dispatch: self.__thread_handle.join() returns once the thread ended
ThreadedObject_dispatch_join(caller) ==
    /\ call[caller].pc = "join"
    /\ thread[call[caller].target] # "alive"
    /\ call' = [call EXCEPT ![caller].pc = "return", ![caller].joined = TRUE]
    /\ UNCHANGED <<thread_vars, worker_pc, cm_vars, sup_vars, main_pc>>

(***************************************************************************)
(* The thread functions of the watched tasks                               *)
(***************************************************************************)
Workers == {"power_manager", "notifier"}

\* PowerManager.__worker, Notifier.__show_notification: while self.shall_run()
worker_while(task) ==
    /\ thread[task] = "alive"
    /\ worker_pc[task] = "while"
    /\ IF shall_run[task]
       THEN /\ worker_pc' = [worker_pc EXCEPT ![task] = "body"]
            /\ UNCHANGED thread
       ELSE /\ thread' = [thread EXCEPT ![task] = "exited"]
            /\ UNCHANGED worker_pc
    /\ UNCHANGED <<shall_run, cm_vars, sup_vars, call, main_pc>>

\* the loop body and its sleep
worker_body(task) ==
    /\ thread[task] = "alive"
    /\ worker_pc[task] = "body"
    /\ worker_pc' = [worker_pc EXCEPT ![task] = "while"]
    /\ UNCHANGED <<thread_vars, cm_vars, sup_vars, call, main_pc>>

\* an exception escapes the thread function of a task (in PowerManager for example
\* the AssertionError of __get_current_mode): the thread ends with its run flag set
task_fails(task) ==
    /\ thread[task] = "alive"
    /\ task \in Workers => worker_pc[task] = "body"
    /\ task = "event_dispatcher" => ed_pc \in {"empty", "get", "for"}
    /\ task = "camera_motion" => cm_pc \in {"create", "loop"}
    /\ thread' = [thread EXCEPT ![task] = "exited"]
    /\ httpd' = IF task = "camera_motion" /\ cm_pc = "loop"
                THEN [httpd EXCEPT !.shutdown_request = FALSE, !.is_shut_down = TRUE]
                ELSE httpd
    /\ UNCHANGED <<shall_run, worker_pc, cm_pc, sup_vars, call, main_pc>>

\* CameraMotion.__start_httpd: self.__httpd = socketserver.TCPServer(...)
cm_create ==
    /\ thread["camera_motion"] = "alive"
    /\ cm_pc = "create"
    /\ httpd' = [httpd EXCEPT !.created = TRUE]
    /\ cm_pc' = "serve"
    /\ UNCHANGED <<thread_vars, worker_pc, sup_vars, call, main_pc>>

\* serve_forever is entered: it clears the is_shut_down event
cm_serve ==
    /\ thread["camera_motion"] = "alive"
    /\ cm_pc = "serve"
    /\ httpd' = [httpd EXCEPT !.is_shut_down = FALSE]
    /\ cm_pc' = "loop"
    /\ UNCHANGED <<thread_vars, worker_pc, sup_vars, call, main_pc>>

\* serve_forever: its loop runs until a shutdown is requested, then it resets the
\* request and sets is_shut_down
cm_loop ==
    /\ thread["camera_motion"] = "alive"
    /\ cm_pc = "loop"
    /\ httpd.shutdown_request
    /\ httpd' = [httpd EXCEPT !.shutdown_request = FALSE, !.is_shut_down = TRUE]
    /\ cm_pc' = "stopped"
    /\ UNCHANGED <<thread_vars, worker_pc, sup_vars, call, main_pc>>

\* __start_httpd returns after serve_forever: the thread ends
cm_return ==
    /\ thread["camera_motion"] = "alive"
    /\ cm_pc = "stopped"
    /\ thread' = [thread EXCEPT !["camera_motion"] = "exited"]
    /\ UNCHANGED <<shall_run, worker_pc, cm_vars, sup_vars, call, main_pc>>

(***************************************************************************)
(* ThreadedObjectSupervisor.__supervise_threaded_objects                   *)
(***************************************************************************)
\* while self.shall_run():
sup_while ==
    /\ thread["supervisor"] = "alive"
    /\ sup_pc = "while"
    /\ sup_pc' = IF shall_run["supervisor"] THEN "poll" ELSE "terminate"
    /\ sup_i' = 1
    /\ UNCHANGED <<thread_vars, worker_pc, cm_vars, term_count, call, main_pc>>

\* a poll that stops the supervisor for the first task of the list only (used to test
\* the claims)
sup_poll_first_only ==
    /\ sup_pc = "poll"
    /\ shall_run' = IF is_running(Watched[sup_i]) \/ sup_i > 1
                    THEN shall_run
                    ELSE [shall_run EXCEPT !["supervisor"] = FALSE]
    /\ IF sup_i < Len(Watched)
       THEN sup_i' = sup_i + 1 /\ UNCHANGED sup_pc
       ELSE sup_i' = 0 /\ sup_pc' = "sleep"
    /\ UNCHANGED <<thread, worker_pc, cm_vars, term_count, call, main_pc>>

\* for threaded_object in ...: if not threaded_object.is_running(): self.stop()
sup_poll ==
    /\ sup_pc = "poll"
    /\ shall_run' = IF is_running(Watched[sup_i])
                    THEN shall_run
                    ELSE [shall_run EXCEPT !["supervisor"] = FALSE]
    /\ IF sup_i < Len(Watched)
       THEN sup_i' = sup_i + 1 /\ UNCHANGED sup_pc
       ELSE sup_i' = 0 /\ sup_pc' = "sleep"
    /\ UNCHANGED <<thread, worker_pc, cm_vars, term_count, call, main_pc>>

\* time.sleep(0.5)
sup_sleep ==
    /\ sup_pc = "sleep"
    /\ sup_pc' = "while"
    /\ UNCHANGED <<thread_vars, worker_pc, cm_vars, sup_i, term_count, call, main_pc>>

\* the second for loop skipping the tasks that are not running (used to test the claims)
sup_terminate_running_only ==
    /\ sup_pc = "terminate"
    /\ call["supervisor"].pc = "idle"
    /\ IF is_running(Watched[sup_i])
       THEN /\ dispatch_enter("supervisor", Watched[sup_i])
            /\ term_count' = [term_count EXCEPT ![Watched[sup_i]] = @ + 1]
            /\ UNCHANGED <<sup_pc, sup_i, thread>>
       ELSE /\ IF sup_i < Len(Watched)
               THEN sup_i' = sup_i + 1 /\ UNCHANGED <<sup_pc, thread>>
               ELSE /\ sup_i' = 0
                    /\ sup_pc' = "done"
                    /\ thread' = [thread EXCEPT !["supervisor"] = "exited"]
            /\ UNCHANGED <<term_count, call>>
    /\ UNCHANGED <<shall_run, worker_pc, cm_vars, main_pc>>

\* for threaded_object in ...: threaded_object.dispatch(Event(Signal.TERMINATE))
sup_terminate ==
    /\ sup_pc = "terminate"
    /\ call["supervisor"].pc = "idle"
    /\ dispatch_enter("supervisor", Watched[sup_i])
    /\ term_count' = [term_count EXCEPT ![Watched[sup_i]] = @ + 1]
    /\ UNCHANGED <<sup_pc, sup_i, thread_vars, worker_pc, cm_vars, main_pc>>

\* the dispatch call returns: next task of the list, or the thread function returns
sup_terminate_next ==
    /\ sup_pc = "terminate"
    /\ call["supervisor"].pc = "return"
    /\ call' = [call EXCEPT !["supervisor"] = NoCall]
    /\ IF sup_i < Len(Watched)
       THEN sup_i' = sup_i + 1 /\ UNCHANGED <<sup_pc, thread>>
       ELSE /\ sup_i' = 0
            /\ sup_pc' = "done"
            /\ thread' = [thread EXCEPT !["supervisor"] = "exited"]
    /\ UNCHANGED <<shall_run, worker_pc, cm_vars, term_count, main_pc>>

(***************************************************************************)
(* main                                                                    *)
(***************************************************************************)
\* the tasks main starts, in order; the supervisor is started last
StartOrder == << "camera_motion", "power_manager", "notifier", "event_dispatcher",
                 "supervisor" >>

\* main_pc while the next task of StartOrder to start is number i
Starting(i) == [at |-> "start", i |-> i]
MainAt(place) == [at |-> place, i |-> 0]

\* CameraMotion(...).start(), PowerManager(...).start(), Notifier(...).start(),
\* EventDispatcher(...).start(), ThreadedObjectSupervisor(...).start()
main_start ==
    /\ main_pc.at = "start"
    /\ ThreadedObject_start(StartOrder[main_pc.i])
    /\ main_pc' = IF main_pc.i < Len(StartOrder)
                  THEN Starting(main_pc.i + 1)
                  ELSE MainAt("join")
    /\ UNCHANGED <<worker_pc, cm_vars, sup_vars, call>>

\* threaded_object_supervisor.join() returns
main_join ==
    /\ main_pc.at = "join"
    /\ thread["supervisor"] = "exited"
    /\ main_pc' = MainAt("finally")
    /\ UNCHANGED <<thread_vars, worker_pc, cm_vars, sup_vars, call>>

\* KeyboardInterrupt, or the OSError the SIGTERM handler raises, inside the try block
main_interrupt ==
    /\ main_pc.at \in {"start", "join"}
    /\ main_pc' = MainAt("finally")
    /\ UNCHANGED <<thread_vars, worker_pc, cm_vars, sup_vars, call>>

\* finally: if threaded_object_supervisor: dispatch(Event(Signal.TERMINATE))
main_finally ==
    /\ main_pc.at = "finally"
    /\ IF thread["supervisor"] # "none"
       THEN /\ dispatch_enter("main", "supervisor")
            /\ main_pc' = MainAt("dispatch")
       ELSE /\ main_pc' = MainAt("cleanup")
            /\ UNCHANGED call
    /\ UNCHANGED <<thread_vars, worker_pc, cm_vars, sup_vars>>

\* the dispatch call on the supervisor returns
main_dispatched ==
    /\ main_pc.at = "dispatch"
    /\ call["main"].pc = "return"
    /\ main_pc' = MainAt("cleanup")
    /\ UNCHANGED <<thread_vars, worker_pc, cm_vars, sup_vars, call>>

\* GPIO.cleanup()
main_cleanup ==
    /\ main_pc.at = "cleanup"
    /\ main_pc' = MainAt("done")
    /\ UNCHANGED <<thread_vars, worker_pc, cm_vars, sup_vars, call>>

\* the class-level defaults of ThreadedObject, before main has started anything
ThreadsNotStarted ==
    /\ thread = [t \in Tasks |-> "none"]
    /\ shall_run = [t \in Tasks |-> FALSE]

LifeInitVars ==
    /\ worker_pc = [t \in Workers |-> "while"]
    /\ cm_pc = "create"
    /\ httpd = [created |-> FALSE, shutdown_request |-> FALSE, is_shut_down |-> FALSE]
    /\ sup_pc = "while"
    /\ sup_i = 0
    /\ term_count = [t \in {Watched[i] : i \in 1..Len(Watched)} |-> 0]
    /\ call = [c \in Callers |-> NoCall]
    /\ main_pc = Starting(1)

(***************************************************************************)
(* Startup: get_listen and get_schedules of surveillance_frame.py.  A       *)
(* string is the sequence of its characters.                               *)
(***************************************************************************)
DigitChars == <<"0", "1", "2", "3", "4", "5", "6", "7", "8", "9">>
UpperChars == <<"A", "B", "C", "D", "E", "F", "G", "H", "I", "J", "K", "L", "M", "N", "O", "P", "Q", "R", "S", "T", "U", "V", "W", "X", "Y", "Z">>
LowerChars == <<"a", "b", "c", "d", "e", "f", "g", "h", "i", "j", "k", "l", "m", "n", "o", "p", "q", "r", "s", "t", "u", "v", "w", "x", "y", "z">>

\* a character matches [0-9] (\d for the characters of the model)
is_digit(c) == \E k \in 1..Len(DigitChars) : DigitChars[k] = c

\* the string matches [0-9]+
is_digits(s) == s # <<>> /\ \A i \in 1..Len(s) : is_digit(s[i])

\* int(s) for a string of digits
RECURSIVE int(_)
int(s) ==
    IF s = <<>>
    THEN 0
    ELSE 10 * int(SubSeq(s, 1, Len(s) - 1))
         + ((CHOOSE k \in 1..Len(DigitChars) : DigitChars[k] = s[Len(s)]) - 1)

\* str.lower() and str.upper()
str_lower(s) ==
    [i \in 1..Len(s) |->
        IF \E k \in 1..Len(UpperChars) : UpperChars[k] = s[i]
        THEN LowerChars[CHOOSE k \in 1..Len(UpperChars) : UpperChars[k] = s[i]]
        ELSE s[i]]
str_upper(s) ==
    [i \in 1..Len(s) |->
        IF \E k \in 1..Len(LowerChars) : LowerChars[k] = s[i]
        THEN UpperChars[CHOOSE k \in 1..Len(LowerChars) : LowerChars[k] = s[i]]
        ELSE s[i]]

\* str.split(sep)
RECURSIVE str_split(_, _)
str_split(s, sep) ==
    IF \A i \in 1..Len(s) : s[i] # sep
    THEN <<s>>
    ELSE LET k == CHOOSE i \in 1..Len(s) : s[i] = sep /\ \A j \in 1..(i - 1) : s[j] # sep IN
         <<SubSeq(s, 1, k - 1)>> \o str_split(SubSeq(s, k + 1, Len(s)), sep)

\* sys.exit(-1) as the shell sees it, and the exit status of an uncaught exception
EXIT_MINUS_ONE == 255
EXIT_UNCAUGHT == 1

\* re.match(r"^([0-9]+(?:\.[0-9]+){3}):([0-9]+)$", listen): the text before the one
\* colon is four runs of digits joined by dots, the text after it a run of digits
listen_matches(listen) ==
    LET parts == str_split(listen, ":") IN
    /\ Len(parts) = 2
    /\ LET octets == str_split(parts[1], ".") IN
          /\ Len(octets) = 4
          /\ \A i \in 1..4 : is_digits(octets[i])
    /\ is_digits(parts[2])

\* get_listen: the exit status it ends the process with, or 0 when it returns
get_listen(listen) == IF listen_matches(listen) THEN 0 ELSE EXIT_MINUS_ONE

\* the weekdays dictionary of get_schedules
weekdays ==
    { <<<<"m", "o", "n", "d", "a", "y">>, 0>>,
      <<<<"t", "u", "e", "s", "d", "a", "y">>, 1>>,
      <<<<"w", "e", "d", "n", "e", "s", "d", "a", "y">>, 2>>,
      <<<<"t", "h", "u", "r", "s", "d", "a", "y">>, 3>>,
      <<<<"f", "r", "i", "d", "a", "y">>, 4>>,
      <<<<"s", "a", "t", "u", "r", "d", "a", "y">>, 5>>,
      <<<<"s", "u", "n", "d", "a", "y">>, 6>>,
      <<<<"w", "e", "e", "k", "d", "a", "y">>, PowerSchedule_WEEKDAY>>,
      <<<<"w", "e", "e", "k", "e", "n", "d">>, PowerSchedule_WEEKEND>>,
      <<<<"a", "n", "y", "d", "a", "y">>, PowerSchedule_ANYDAY>> }

\* the modes dictionary of get_schedules
modes ==
    { <<<<"A", "L", "W", "A", "Y", "S", "_", "O", "N">>, ALWAYS_ON>>,
      <<<<"C", "A", "M", "E", "R", "A", "_", "M", "O", "T", "I", "O", "N">>, CAMERA_MOTION>>,
      <<<<"M", "O", "T", "I", "O", "N", "_", "S", "E", "N", "S", "O", "R">>, MOTION_SENSOR>> }

\* dictionary[key] raises KeyError
has_key(dictionary, key) == \E p \in dictionary : p[1] = key
lookup(dictionary, key) == (CHOOSE p \in dictionary : p[1] = key)[2]

\* re.match(r"^(\d{1,2}):(\d{2})$", text)
time_matches(text) ==
    LET parts == str_split(text, ":") IN
    /\ Len(parts) = 2
    /\ Len(parts[1]) \in {1, 2} /\ is_digits(parts[1])
    /\ Len(parts[2]) = 2 /\ is_digits(parts[2])

\* datetime.time(hour, minute, 0) raises ValueError out of its ranges
time_in_range(text) ==
    LET parts == str_split(text, ":") IN
    int(parts[1]) \in 0..23 /\ int(parts[2]) \in 0..59

\* datetime.time(hour, minute, 0), in minutes since 00:00
time_of(text) ==
    LET parts == str_split(text, ":") IN 60 * int(parts[1]) + int(parts[2])

\* the loop body without the comparison of the end time with the start time
schedule_status_end_not_compared(schedule) ==
    LET elements == str_split(schedule, ",") IN
    IF Len(elements) # 4 THEN EXIT_MINUS_ONE
    ELSE IF ~has_key(weekdays, str_lower(elements[1])) THEN EXIT_MINUS_ONE
    ELSE IF ~time_matches(elements[2]) THEN EXIT_MINUS_ONE
    ELSE IF ~time_in_range(elements[2]) THEN EXIT_UNCAUGHT
    ELSE IF ~time_matches(elements[3]) THEN EXIT_MINUS_ONE
    ELSE IF ~time_in_range(elements[3]) THEN EXIT_UNCAUGHT
    ELSE IF ~has_key(modes, str_upper(elements[4])) THEN EXIT_MINUS_ONE
    ELSE 0

\* the body of the loop of get_schedules for one schedule string: the exit status it
\* ends the process with, or 0 when the schedule is appended
schedule_status(schedule) ==
    LET elements == str_split(schedule, ",") IN
    IF Len(elements) # 4 THEN EXIT_MINUS_ONE
    ELSE IF ~has_key(weekdays, str_lower(elements[1])) THEN EXIT_MINUS_ONE
    ELSE IF ~time_matches(elements[2]) THEN EXIT_MINUS_ONE
    ELSE IF ~time_in_range(elements[2]) THEN EXIT_UNCAUGHT
    ELSE IF ~time_matches(elements[3]) THEN EXIT_MINUS_ONE
    ELSE IF ~time_in_range(elements[3]) THEN EXIT_UNCAUGHT
    ELSE IF time_of(elements[3]) # 0 /\ time_of(elements[2]) >= time_of(elements[3])
    THEN EXIT_MINUS_ONE
    ELSE IF ~has_key(modes, str_upper(elements[4])) THEN EXIT_MINUS_ONE
    ELSE 0

\* PowerSchedule(weekday, start, end, mode) of a schedule string that passes
power_schedule(schedule) ==
    LET elements == str_split(schedule, ",") IN
    [weekday |-> lookup(weekdays, str_lower(elements[1])),
     start |-> time_of(elements[2]),
     end |-> time_of(elements[3]),
     mode |-> lookup(modes, str_upper(elements[4]))]

\* the loop of get_schedules from schedule i on: the status of the first schedule
\* string that does not pass, or 0
RECURSIVE get_schedules_status(_, _)
get_schedules_status(list, i) ==
    IF i > Len(list) THEN 0
    ELSE IF schedule_status(list[i]) # 0 THEN schedule_status(list[i])
    ELSE get_schedules_status(list, i + 1)

\* get_schedules when every schedule string passes: None or the list of PowerSchedule
get_schedules(argument) ==
    IF argument.is_none
    THEN [is_none |-> TRUE, list |-> <<>>]
    ELSE [is_none |-> FALSE,
          list |-> [i \in 1..Len(argument.list) |-> power_schedule(argument.list[i])]]

\* values of --listen of the right form
WellFormedListenArgs ==
    { <<"0", ".", "0", ".", "0", ".", "0", ":", "1", "0", "0", "4", "2">> }

\* malformed values of --listen:
\*   localhost:80   1.2.3:80   1.2.3.4   :80   1.2.3.4:http
MalformedListenArgs ==
    { <<"l", "o", "c", "a", "l", "h", "o", "s", "t", ":", "8", "0">>,
      <<"1", ".", "2", ".", "3", ":", "8", "0">>,
      <<"1", ".", "2", ".", "3", ".", "4">>,
      <<":", "8", "0">>,
      <<"1", ".", "2", ".", "3", ".", "4", ":", "h", "t", "t", "p">> }

\* values of --schedule that follow the grammar:
\*   None
\*   Tuesday,22:00,0:00,CAMERA_MOTION
\*   monday,7:30,8:00,motion_sensor ; WEEKEND,0:00,23:59,Always_On
WellFormedScheduleArgs ==
    { [is_none |-> TRUE, list |-> <<>>],
      [is_none |-> FALSE,
       list |-> <<<<"T", "u", "e", "s", "d", "a", "y", ",", "2", "2", ":", "0", "0", ",", "0", ":", "0", "0", ",", "C", "A", "M", "E", "R", "A", "_", "M", "O", "T", "I", "O", "N">>>>],
      [is_none |-> FALSE,
       list |-> <<<<"m", "o", "n", "d", "a", "y", ",", "7", ":", "3", "0", ",", "8", ":", "0", "0", ",", "m", "o", "t", "i", "o", "n", "_", "s", "e", "n", "s", "o", "r">>,
             <<"W", "E", "E", "K", "E", "N", "D", ",", "0", ":", "0", "0", ",", "2", "3", ":", "5", "9", ",", "A", "l", "w", "a", "y", "s", "_", "O", "n">>>>] }

\* values of --schedule that do not: a wrong number of fields, an unknown weekday, a
\* malformed time, an end time not after the start, an unknown mode
\*   Monday,7:30,8:00
\*   Monday,7:30,8:00,ALWAYS_ON,x
\*   Funday,7:30,8:00,ALWAYS_ON
\*   Monday,7.30,8:00,ALWAYS_ON
\*   Monday,7:30,8:0,ALWAYS_ON
\*   Monday,25:00,8:00,ALWAYS_ON
\*   Monday,8:00,7:30,ALWAYS_ON
\*   Monday,8:00,8:00,ALWAYS_ON
\*   Monday,7:30,8:00,SOMETIMES
\*   Tuesday,22:00,0:00,CAMERA_MOTION ; Monday,8:00,7:30,ALWAYS_ON
MalformedScheduleArgs ==
    { [is_none |-> FALSE,
       list |-> <<<<"M", "o", "n", "d", "a", "y", ",", "7", ":", "3", "0", ",", "8", ":", "0", "0">>>>],
      [is_none |-> FALSE,
       list |-> <<<<"M", "o", "n", "d", "a", "y", ",", "7", ":", "3", "0", ",", "8", ":", "0", "0", ",", "A", "L", "W", "A", "Y", "S", "_", "O", "N", ",", "x">>>>],
      [is_none |-> FALSE,
       list |-> <<<<"F", "u", "n", "d", "a", "y", ",", "7", ":", "3", "0", ",", "8", ":", "0", "0", ",", "A", "L", "W", "A", "Y", "S", "_", "O", "N">>>>],
      [is_none |-> FALSE,
       list |-> <<<<"M", "o", "n", "d", "a", "y", ",", "7", ".", "3", "0", ",", "8", ":", "0", "0", ",", "A", "L", "W", "A", "Y", "S", "_", "O", "N">>>>],
      [is_none |-> FALSE,
       list |-> <<<<"M", "o", "n", "d", "a", "y", ",", "7", ":", "3", "0", ",", "8", ":", "0", ",", "A", "L", "W", "A", "Y", "S", "_", "O", "N">>>>],
      [is_none |-> FALSE,
       list |-> <<<<"M", "o", "n", "d", "a", "y", ",", "2", "5", ":", "0", "0", ",", "8", ":", "0", "0", ",", "A", "L", "W", "A", "Y", "S", "_", "O", "N">>>>],
      [is_none |-> FALSE,
       list |-> <<<<"M", "o", "n", "d", "a", "y", ",", "8", ":", "0", "0", ",", "7", ":", "3", "0", ",", "A", "L", "W", "A", "Y", "S", "_", "O", "N">>>>],
      [is_none |-> FALSE,
       list |-> <<<<"M", "o", "n", "d", "a", "y", ",", "8", ":", "0", "0", ",", "8", ":", "0", "0", ",", "A", "L", "W", "A", "Y", "S", "_", "O", "N">>>>],
      [is_none |-> FALSE,
       list |-> <<<<"M", "o", "n", "d", "a", "y", ",", "7", ":", "3", "0", ",", "8", ":", "0", "0", ",", "S", "O", "M", "E", "T", "I", "M", "E", "S">>>>],
      [is_none |-> FALSE,
       list |-> <<<<"T", "u", "e", "s", "d", "a", "y", ",", "2", "2", ":", "0", "0", ",", "0", ":", "0", "0", ",", "C", "A", "M", "E", "R", "A", "_", "M", "O", "T", "I", "O", "N">>,
             <<"M", "o", "n", "d", "a", "y", ",", "8", ":", "0", "0", ",", "7", ":", "3", "0", ",", "A", "L", "W", "A", "Y", "S", "_", "O", "N">>>>] }

\* main up to its try block: get_listen, get_schedules
main_setup ==
    /\ main_pc.at = "setup"
    /\ IF get_listen(arg_listen) # 0
       THEN /\ main_pc' = MainAt("exited")
            /\ exit_status' = get_listen(arg_listen)
            /\ UNCHANGED schedules
       ELSE IF ~arg_schedule.is_none /\ get_schedules_status(arg_schedule.list, 1) # 0
       THEN /\ main_pc' = MainAt("exited")
            /\ exit_status' = get_schedules_status(arg_schedule.list, 1)
            /\ UNCHANGED schedules
       ELSE /\ main_pc' = Starting(1)
            /\ schedules' = get_schedules(arg_schedule)
            /\ UNCHANGED exit_status
    /\ UNCHANGED <<timer_vars, now_weekday, now_time, resolved, queue_vars, ed_vars,
                   in_vars, out_vars, thread_vars, worker_pc, cm_vars, sup_vars, call,
                   pm_vars, arg_listen, arg_schedule, obs_vars>>

\* no command line is involved: the variables of the startup keep these values
StartupInitVars ==
    /\ arg_listen = <<>>
    /\ arg_schedule = [is_none |-> TRUE, list |-> <<>>]
    /\ exit_status = 0

(***************************************************************************)
(* PowerManager.__worker: the controller and its tick.  The tick is taken  *)
(* in the steps between which the dispatcher's thread or the clock can     *)
(* come in: the head of the loop with the mode resolution, the initialize  *)
(* part of the display-power handler, the rest of that handler, the        *)
(* camera-stream handler, and the reset of the pressed button.             *)
(***************************************************************************)
\* camera_stream_timeout of __handle_camera_stream, in seconds
camera_stream_timeout == 30
\* display_power_timeout of __handle_display_power_motion_sensor, in seconds
display_power_timeout == 600
\* default of --motion-timeout, in seconds
DefaultMotionTimeout == 3600

\* what the steps of the worker never touch
pm_frame == <<timer_vars, sched_vars, ed_vars, life_vars, http_response, http_path,
              motion_timeout, startup_vars>>

PMInitVars ==
    /\ pm_pc = "start"
    /\ current_mode = None
    /\ initialize = FALSE
    /\ camera_stream_timer = Timer_init
    /\ display_power_timer = Timer_init
    /\ motion_timeout = DefaultMotionTimeout

\* the worker starting with the slideshow switched off (used to test the claims)
pm_start_slideshow_off ==
    /\ thread["power_manager"] = "alive"
    /\ pm_pc = "start"
    /\ n_put < MaxPuts
    /\ control_slideshow(FALSE)
    /\ pm_pc' = "while"
    /\ UNCHANGED <<out_camera_stream, out_display_power, in_vars, thread_vars,
                   current_mode, initialize, camera_stream_timer, display_power_timer,
                   pm_frame>>

\* __worker up to its loop: self.__control_slideshow(True)
pm_start ==
    /\ thread["power_manager"] = "alive"
    /\ pm_pc = "start"
    /\ n_put < MaxPuts
    /\ control_slideshow(TRUE)
    /\ pm_pc' = "while"
    /\ UNCHANGED <<out_camera_stream, out_display_power, in_vars, thread_vars,
                   current_mode, initialize, camera_stream_timer, display_power_timer,
                   pm_frame>>

\* the head of the loop with the stored mode never updated (used to test the claims)
pm_tick_begin_mode_not_stored ==
    /\ thread["power_manager"] = "alive"
    /\ pm_pc = "while"
    /\ n_put < MaxPuts
    /\ LET mode == get_current_mode(schedules, now_weekday, now_time) IN
       IF ~shall_run["power_manager"] \/ mode = AssertionError
       THEN /\ pm_pc' = "done"
            /\ thread' = [thread EXCEPT !["power_manager"] = "exited"]
            /\ UNCHANGED <<current_mode, initialize>>
       ELSE /\ initialize' = (mode # current_mode)
            /\ current_mode' = IF current_mode = None THEN mode ELSE current_mode
            /\ pm_pc' = IF mode # current_mode THEN "display_init" ELSE "display"
            /\ UNCHANGED thread
    /\ UNCHANGED <<shall_run, queue, n_put, put_log, in_vars, out_vars,
                   camera_stream_timer, display_power_timer, pm_frame>>

\* while self.shall_run(): current_mode = self.__get_current_mode(); initialize
pm_tick_begin ==
    /\ thread["power_manager"] = "alive"
    /\ pm_pc = "while"
    /\ n_put < MaxPuts
    /\ LET mode == get_current_mode(schedules, now_weekday, now_time) IN
       IF ~shall_run["power_manager"] \/ mode = AssertionError
       THEN /\ pm_pc' = "done"
            /\ thread' = [thread EXCEPT !["power_manager"] = "exited"]
            /\ UNCHANGED <<current_mode, initialize>>
       ELSE /\ initialize' = (mode # current_mode)
            /\ current_mode' = mode
            /\ pm_pc' = IF mode # current_mode THEN "display_init" ELSE "display"
            /\ UNCHANGED thread
    /\ UNCHANGED <<shall_run, queue, n_put, put_log, in_vars, out_vars,
                   camera_stream_timer, display_power_timer, pm_frame>>

\* if initialize: of the display-power handler of the mode: the timer is stopped and
\* the display is set to the rest state of the mode
pm_display_init ==
    /\ thread["power_manager"] = "alive"
    /\ pm_pc = "display_init"
    /\ n_put < MaxPuts
    /\ display_power_timer' = Timer_stop
    /\ control_display_power(current_mode = ALWAYS_ON)
    /\ pm_pc' = "display"
    /\ UNCHANGED <<out_camera_stream, out_slideshow, in_vars, thread_vars,
                   current_mode, initialize, camera_stream_timer, pm_frame>>

\* no control event is emitted for the display
display_power_unchanged == UNCHANGED <<queue, n_put, put_log, out_display_power>>

\* the display switched back on by a short press only (used to test the claims)
handle_display_power_always_on_short_only ==
    /\ IF out_display_power
       THEN IF in_button_press = LONG_PRESS
            THEN control_display_power(FALSE)
            ELSE display_power_unchanged
       ELSE IF in_button_press = SHORT_PRESS
            THEN control_display_power(TRUE)
            ELSE display_power_unchanged
    /\ UNCHANGED display_power_timer

\* the display switched back on by camera motion as well (used to test the claims)
handle_display_power_always_on_motion_wakes ==
    /\ IF out_display_power
       THEN IF in_button_press = LONG_PRESS
            THEN control_display_power(FALSE)
            ELSE display_power_unchanged
       ELSE IF in_button_press # NoPress \/ in_camera_motion
            THEN control_display_power(TRUE)
            ELSE display_power_unchanged
    /\ UNCHANGED display_power_timer

\* __handle_display_power_always_on after its initialize part
handle_display_power_always_on ==
    /\ IF out_display_power
       THEN IF in_button_press = LONG_PRESS
            THEN control_display_power(FALSE)
            ELSE display_power_unchanged
       ELSE IF in_button_press # NoPress
            THEN control_display_power(TRUE)
            ELSE display_power_unchanged
    /\ UNCHANGED display_power_timer

\* the display switched off as soon as the sensor reports no motion (used to test
\* the claims)
handle_display_power_motion_sensor_no_hold ==
    IF out_display_power
    THEN LET t == IF in_sensor_motion
                  THEN Timer_start(display_power_timeout, clock)
                  ELSE display_power_timer IN
         /\ display_power_timer' = t
         /\ IF ~out_camera_stream /\ ~in_sensor_motion
            THEN control_display_power(FALSE)
            ELSE display_power_unchanged
    ELSE IF in_sensor_motion
         THEN /\ control_display_power(TRUE)
              /\ display_power_timer' = Timer_start(display_power_timeout, clock)
         ELSE /\ IF out_camera_stream
                 THEN control_display_power(TRUE)
                 ELSE display_power_unchanged
              /\ UNCHANGED display_power_timer

\* the display switched off on the expiry of its timer, camera stream or not (used to
\* test the claims)
handle_display_power_motion_sensor_stream_ignored ==
    IF out_display_power
    THEN LET t == IF in_sensor_motion
                  THEN Timer_start(display_power_timeout, clock)
                  ELSE display_power_timer IN
         /\ display_power_timer' = t
         /\ IF Timer_is_expired(t, clock)
            THEN control_display_power(FALSE)
            ELSE display_power_unchanged
    ELSE IF in_sensor_motion
         THEN /\ control_display_power(TRUE)
              /\ display_power_timer' = Timer_start(display_power_timeout, clock)
         ELSE /\ IF out_camera_stream
                 THEN control_display_power(TRUE)
                 ELSE display_power_unchanged
              /\ UNCHANGED display_power_timer

\* __handle_display_power_motion_sensor after its initialize part
handle_display_power_motion_sensor ==
    IF out_display_power
    THEN LET t == IF in_sensor_motion
                  THEN Timer_start(display_power_timeout, clock)
                  ELSE display_power_timer IN
         /\ display_power_timer' = t
         /\ IF ~out_camera_stream /\ Timer_is_expired(t, clock)
            THEN control_display_power(FALSE)
            ELSE display_power_unchanged
    ELSE IF in_sensor_motion
         THEN /\ control_display_power(TRUE)
              /\ display_power_timer' = Timer_start(display_power_timeout, clock)
         ELSE /\ IF out_camera_stream
                 THEN control_display_power(TRUE)
                 ELSE display_power_unchanged
              /\ UNCHANGED display_power_timer

\* the display switched on with the stream but never off (used to test the claims)
handle_display_power_camera_motion_on_only ==
    /\ IF ~out_display_power /\ out_camera_stream
       THEN control_display_power(TRUE)
       ELSE display_power_unchanged
    /\ UNCHANGED display_power_timer

\* __handle_display_power_camera_motion after its initialize part
handle_display_power_camera_motion ==
    /\ IF out_display_power
       THEN IF ~out_camera_stream
            THEN control_display_power(FALSE)
            ELSE display_power_unchanged
       ELSE IF out_camera_stream
            THEN control_display_power(TRUE)
            ELSE display_power_unchanged
    /\ UNCHANGED display_power_timer

\* the display-power handler of the current mode, after its initialize part
pm_display ==
    /\ thread["power_manager"] = "alive"
    /\ pm_pc = "display"
    /\ n_put < MaxPuts
    /\ IF current_mode = ALWAYS_ON
       THEN handle_display_power_always_on
       ELSE IF current_mode = MOTION_SENSOR
       THEN handle_display_power_motion_sensor
       ELSE handle_display_power_camera_motion
    /\ pm_pc' = "camera"
    /\ UNCHANGED <<out_camera_stream, out_slideshow, in_vars, thread_vars,
                   current_mode, initialize, camera_stream_timer, pm_frame>>

\* no control event is emitted for the camera stream
camera_stream_unchanged == UNCHANGED <<queue, n_put, put_log, out_camera_stream>>

\* a short press starting the stream without arming its timer (used to test the claims)
handle_camera_stream_press_not_timed ==
    LET t == IF initialize THEN Timer_stop ELSE camera_stream_timer IN
    IF out_camera_stream
    THEN /\ IF ~in_camera_motion /\ Timer_is_expired(t, clock)
            THEN control_camera_stream(FALSE)
            ELSE camera_stream_unchanged
         /\ camera_stream_timer' = t
    ELSE /\ IF in_camera_motion \/ in_button_press = SHORT_PRESS
            THEN control_camera_stream(TRUE)
            ELSE camera_stream_unchanged
         /\ camera_stream_timer' = t

\* the stream commanded on at every tick with camera motion, whatever the latch (used
\* to test the claims)
handle_camera_stream_always_commands ==
    LET t == IF initialize THEN Timer_stop ELSE camera_stream_timer IN
    IF in_camera_motion
    THEN /\ control_camera_stream(TRUE)
         /\ camera_stream_timer' = t
    ELSE IF out_camera_stream
    THEN /\ IF Timer_is_expired(t, clock)
            THEN control_camera_stream(FALSE)
            ELSE camera_stream_unchanged
         /\ camera_stream_timer' = t
    ELSE IF in_button_press = SHORT_PRESS
    THEN /\ control_camera_stream(TRUE)
         /\ camera_stream_timer' = Timer_start(camera_stream_timeout, clock)
    ELSE /\ camera_stream_unchanged
         /\ camera_stream_timer' = t

\* the timer of the stream left running on a switch of mode (used to test the claims)
handle_camera_stream_timer_kept ==
    LET t == camera_stream_timer IN
    IF out_camera_stream
    THEN /\ IF ~in_camera_motion /\ Timer_is_expired(t, clock)
            THEN control_camera_stream(FALSE)
            ELSE camera_stream_unchanged
         /\ camera_stream_timer' = t
    ELSE IF in_camera_motion
         THEN /\ control_camera_stream(TRUE)
              /\ camera_stream_timer' = t
         ELSE IF in_button_press = SHORT_PRESS
         THEN /\ control_camera_stream(TRUE)
              /\ camera_stream_timer' = Timer_start(camera_stream_timeout, clock)
         ELSE /\ camera_stream_unchanged
              /\ camera_stream_timer' = t

\* the stream switched off on the expiry of its timer alone, camera motion or not (used
\* to test the claims)
handle_camera_stream_off_on_timer ==
    LET t == IF initialize THEN Timer_stop ELSE camera_stream_timer IN
    IF out_camera_stream
    THEN /\ IF Timer_is_expired(t, clock)
            THEN control_camera_stream(FALSE)
            ELSE camera_stream_unchanged
         /\ camera_stream_timer' = t
    ELSE IF in_camera_motion
         THEN /\ control_camera_stream(TRUE)
              /\ camera_stream_timer' = t
         ELSE IF in_button_press = SHORT_PRESS
         THEN /\ control_camera_stream(TRUE)
              /\ camera_stream_timer' = Timer_start(camera_stream_timeout, clock)
         ELSE /\ camera_stream_unchanged
              /\ camera_stream_timer' = t

\* the timer of the stream stopped on a switch of mode only after the handler has
\* read it (used to test the claims)
handle_camera_stream_stop_after_check ==
    LET t == IF initialize THEN Timer_stop ELSE camera_stream_timer IN
    IF out_camera_stream
    THEN /\ IF ~in_camera_motion /\ Timer_is_expired(camera_stream_timer, clock)
            THEN control_camera_stream(FALSE)
            ELSE camera_stream_unchanged
         /\ camera_stream_timer' = t
    ELSE IF in_camera_motion
         THEN /\ control_camera_stream(TRUE)
              /\ camera_stream_timer' = t
         ELSE IF in_button_press = SHORT_PRESS
         THEN /\ control_camera_stream(TRUE)
              /\ camera_stream_timer' = Timer_start(camera_stream_timeout, clock)
         ELSE /\ camera_stream_unchanged
              /\ camera_stream_timer' = t

\* a short press that arms the timer of the stream again while the stream is on (used
\* to test the claims)
handle_camera_stream_press_rearms ==
    LET t == IF initialize THEN Timer_stop ELSE camera_stream_timer IN
    IF out_camera_stream
    THEN /\ IF ~in_camera_motion /\ Timer_is_expired(t, clock)
            THEN control_camera_stream(FALSE)
            ELSE camera_stream_unchanged
         /\ camera_stream_timer' = IF in_button_press = SHORT_PRESS
                                   THEN Timer_start(camera_stream_timeout, clock)
                                   ELSE t
    ELSE IF in_camera_motion
         THEN /\ control_camera_stream(TRUE)
              /\ camera_stream_timer' = t
         ELSE IF in_button_press = SHORT_PRESS
         THEN /\ control_camera_stream(TRUE)
              /\ camera_stream_timer' = Timer_start(camera_stream_timeout, clock)
         ELSE /\ camera_stream_unchanged
              /\ camera_stream_timer' = t

\* __handle_camera_stream(initialize)
handle_camera_stream ==
    LET t == IF initialize THEN Timer_stop ELSE camera_stream_timer IN
    IF out_camera_stream
    THEN /\ IF ~in_camera_motion /\ Timer_is_expired(t, clock)
            THEN control_camera_stream(FALSE)
            ELSE camera_stream_unchanged
         /\ camera_stream_timer' = t
    ELSE IF in_camera_motion
         THEN /\ control_camera_stream(TRUE)
              /\ camera_stream_timer' = t
         ELSE IF in_button_press = SHORT_PRESS
         THEN /\ control_camera_stream(TRUE)
              /\ camera_stream_timer' = Timer_start(camera_stream_timeout, clock)
         ELSE /\ camera_stream_unchanged
              /\ camera_stream_timer' = t

\* self.__handle_camera_stream(initialize)
pm_camera ==
    /\ thread["power_manager"] = "alive"
    /\ pm_pc = "camera"
    /\ n_put < MaxPuts
    /\ handle_camera_stream
    /\ pm_pc' = "reset"
    /\ UNCHANGED <<out_display_power, out_slideshow, in_vars, thread_vars,
                   current_mode, initialize, display_power_timer, pm_frame>>

\* the end of a tick that leaves the press latched (used to test the claims)
pm_reset_press_kept ==
    /\ thread["power_manager"] = "alive"
    /\ pm_pc = "reset"
    /\ pm_pc' = "while"
    /\ UNCHANGED <<in_vars, out_vars, thread_vars,
                   queue, n_put, put_log, current_mode, initialize,
                   camera_stream_timer, display_power_timer, pm_frame>>

\* self.__in_button_press = None; time.sleep(0.25)
pm_reset ==
    /\ thread["power_manager"] = "alive"
    /\ pm_pc = "reset"
    /\ in_button_press' = NoPress
    /\ pm_pc' = "while"
    /\ UNCHANGED <<in_camera_motion, in_sensor_motion, out_vars, thread_vars,
                   queue, n_put, put_log, current_mode, initialize,
                   camera_stream_timer, display_power_timer, pm_frame>>

(***************************************************************************)
(* The surroundings of the controller: the dispatcher's thread calling its *)
(* dispatch, the clock and the wall clock.                                 *)
(***************************************************************************)
\* the events of the producers, as the dispatcher hands them to the controller
InputEvents ==
    {EventButtonPressed(0, p) : p \in {SHORT_PRESS, LONG_PRESS}}
        \cup {EventMotionChanged(0, s, m) :
                 s \in {CAMERA_MOTION_CHANGED, SENSOR_MOTION_CHANGED}, m \in BOOLEAN}

\* PowerManager.dispatch(event), called on the dispatcher's thread
pm_dispatch(event) ==
    /\ thread["power_manager"] = "alive"
    /\ PowerManager_dispatch(event)
    /\ UNCHANGED <<out_vars, thread_vars, queue, n_put, put_log, pm_pc, current_mode,
                   initialize, camera_stream_timer, display_power_timer, pm_frame>>

\* the dispatcher hands an input event to the controller
pm_dispatch_input == \E event \in InputEvents : pm_dispatch(event)

\* PowerManager.dispatch(Event(Signal.TERMINATE)): ThreadedObject.dispatch stops the task
pm_dispatch_terminate ==
    /\ thread["power_manager"] = "alive"
    /\ shall_run["power_manager"]
    /\ shall_run' = [shall_run EXCEPT !["power_manager"] = FALSE]
    /\ UNCHANGED <<thread, in_vars, out_vars, queue, n_put, put_log, pm_pc, current_mode,
                   initialize, camera_stream_timer, display_power_timer, pm_frame>>

\* the values of time.time() the controller can see: the start, and whole timeouts later
Instants ==
    { 1 + a * camera_stream_timeout + b * display_power_timeout :
          a \in 0..MaxShort, b \in 0..MaxLong }

\* time.time() moves on
pm_clock_advance ==
    /\ \E t \in Instants :
          /\ t > clock
          /\ clock' = t
    /\ UNCHANGED <<timer, timer_op, armed_at, armed_for, sched_vars, system_vars>>

\* an instant of the day in each window of ControllerSchedules and one in none
ControllerInstants == {TimeOfMark(0), TimeOfMark(1) + 1, TimeOfMark(2) + 1}

\* datetime.datetime.now() moves on to another instant of the day
pm_wall_clock_advance ==
    /\ \E t \in ControllerInstants :
          /\ t # now_time
          /\ now_time' = t
    /\ UNCHANGED <<schedules, now_weekday, resolved, timer_vars, system_vars>>

\* a schedule list with a window of each mode but ALWAYS_ON, and one whose second
\* entry names a group of weekdays
ControllerSchedules ==
    { [is_none |-> FALSE,
       list |-> << [weekday |-> 0, start |-> TimeOfMark(0), end |-> TimeOfMark(1),
                    mode |-> MOTION_SENSOR],
                   [weekday |-> 0, start |-> TimeOfMark(1), end |-> TimeOfMark(2),
                    mode |-> CAMERA_MOTION] >>],
      [is_none |-> FALSE,
       list |-> << [weekday |-> 0, start |-> TimeOfMark(0), end |-> TimeOfMark(1),
                    mode |-> MOTION_SENSOR],
                   [weekday |-> PowerSchedule_ANYDAY, start |-> TimeOfMark(1),
                    end |-> TimeOfMark(2), mode |-> CAMERA_MOTION] >>] }

(***************************************************************************)
(* What the handlers of a tick observe.  The history variables record the  *)
(* input latches at the start of the tick and at the display-power         *)
(* handler, and which handlers have run with the latched press in place.   *)
(***************************************************************************)
Latches == <<in_button_press, in_camera_motion, in_sensor_motion>>
NoLatches == <<NoPress, FALSE, FALSE>>
Handlers == {"display", "camera"}

ObsInitVars ==
    /\ tick_latches = NoLatches
    /\ display_latches = NoLatches
    /\ press_read = {}

\* the handlers that have run with the press in place, after one more has run
press_read_by(handler) ==
    IF in_button_press # NoPress THEN press_read \cup {handler} ELSE press_read

\* the tick begins with the latches as they are
obs_tick_begin ==
    /\ pm_tick_begin
    /\ tick_latches' = Latches
    /\ UNCHANGED <<display_latches, press_read>>

\* the display-power handler runs with the latches as they are
obs_display ==
    /\ pm_display
    /\ display_latches' = Latches
    /\ press_read' = press_read_by("display")
    /\ UNCHANGED tick_latches

\* the camera-stream handler runs with the latches as they are; the records of the
\* tick are of no use after it
obs_camera ==
    /\ pm_camera
    /\ press_read' = press_read_by("camera")
    /\ tick_latches' = NoLatches
    /\ display_latches' = NoLatches

\* the reset clears the press, whoever has read it
obs_reset ==
    /\ pm_reset
    /\ press_read' = IF in_button_press' = NoPress THEN {} ELSE press_read
    /\ UNCHANGED <<tick_latches, display_latches>>

\* a dispatched press is a new press, which no handler has read
obs_dispatch_input ==
    \E event \in InputEvents :
       /\ pm_dispatch(event)
       /\ press_read' = IF event.signal = BUTTON_PRESSED THEN {} ELSE press_read
       /\ UNCHANGED <<tick_latches, display_latches>>

(***************************************************************************)
(* The schedule of the data model, as the claims read it: a declared       *)
(* weekday stands for a set of days, a window includes its start and       *)
(* excludes its end, and an end of 00:00 is the end of the day.            *)
(***************************************************************************)
DeclaredDays(w) ==
    IF w = PowerSchedule_WEEKDAY THEN 0..4
    ELSE IF w = PowerSchedule_WEEKEND THEN {5, 6}
    ELSE IF w = PowerSchedule_ANYDAY THEN Weekdays
    ELSE {w}

DeclaredWindow(schedule, time) ==
    /\ schedule.start <= time
    /\ (schedule.end = Midnight \/ time < schedule.end)

DeclaredMatch(schedule, weekday, time) ==
    /\ weekday \in DeclaredDays(schedule.weekday)
    /\ DeclaredWindow(schedule, time)

\* the schedules of the list that pass the window test at the current instant
Matches == { i \in 1..Len(schedules.list) :
                schedule_matches(schedules.list[i], now_weekday, now_time) }

FirstOf(S) == CHOOSE i \in S : \A j \in S : i <= j

\* C6: resolution returns ALWAYS_ON when the list is absent or empty or no schedule
\* matches the current weekday and time, and otherwise the mode of the schedule that
\* was declared first among the matching ones.
C6_Resolution ==
    resolved # None =>
        IF Matches = {}
        THEN resolved = ALWAYS_ON
        ELSE resolved = schedules.list[FirstOf(Matches)].mode

\* C7: at a time exactly equal to the end of a schedule the schedule does not match
\* (resolution of the one-schedule list falls back to ALWAYS_ON), at a time exactly
\* equal to its start it does.
C7_EndExcluded ==
    (/\ resolved # None
     /\ Len(schedules.list) = 1
     /\ schedules.list[1].weekday = now_weekday
     /\ schedules.list[1].start < schedules.list[1].end) =>
        /\ now_time = schedules.list[1].end => resolved = ALWAYS_ON
        /\ now_time = schedules.list[1].start => resolved = schedules.list[1].mode

\* C8: a schedule that ends at 00:00 matches every time from its start to the end of
\* its day, and resolving it completes instead of failing the start < end check.
C8_MidnightEnd ==
    (/\ resolved # None
     /\ Len(schedules.list) >= 1
     /\ schedules.list[1].end = Midnight
     /\ schedules.list[1].weekday = now_weekday
     /\ schedules.list[1].start <= now_time) =>
        /\ resolved # AssertionError
        /\ resolved = schedules.list[1].mode

\* C9: a schedule declared Weekday matches Monday to Friday, one declared Weekend
\* matches Saturday and Sunday, one declared Anyday matches all seven days, and
\* resolving such a schedule never fails.
C9_WeekdayGroups ==
    (/\ resolved # None
     /\ Len(schedules.list) >= 1
     /\ schedules.list[1].weekday \in WeekdayGroups
     /\ schedules.list[1].start < schedules.list[1].end) =>
        /\ resolved # AssertionError
        /\ (/\ now_weekday \in DeclaredDays(schedules.list[1].weekday)
            /\ schedules.list[1].start <= now_time
            /\ now_time < schedules.list[1].end) => resolved = schedules.list[1].mode

(***************************************************************************)
(* Dispatcher claims                                                       *)
(***************************************************************************)
\* C1: every event the dispatcher dequeues is dispatched to each registered object
\* exactly once, in registration order, and all deliveries of an event are complete
\* before the next event is dequeued: outside the for loop every object has been
\* called with exactly the events got so far, and inside it the objects before the
\* loop position have the current event and the others do not have it yet.
C1_FanOut ==
    /\ \A j, k \in 1..Len(got_log) : j # k => got_log[j] # got_log[k]
    /\ \A i \in 1..Len(Objects) :
          delivered[i] = IF ed_pc = "for" /\ i >= ed_i
                         THEN SubSeq(got_log, 1, Len(got_log) - 1)
                         ELSE got_log
    /\ ed_pc = "for" => ed_event.id = got_log[Len(got_log)]

\* the second event got is half way through the object list
C1_Witness ==
    /\ ed_pc = "for"
    /\ ed_i = 4
    /\ Len(got_log) = 2
    /\ Len(delivered[3]) = 2
    /\ Len(delivered[4]) = 1

\* C2: with several producers putting events concurrently, every object receives the
\* events in exactly the order of the put() calls: the j-th dispatch call of an
\* object carries the j-th event put on the queue.
C2_EnqueueOrder ==
    \A i \in 1..Len(Objects) :
        \A j \in 1..Len(delivered[i]) : delivered[i][j] = j

\* the last object has received events of two different producers, the second of
\* them put while the first was still pending or being delivered
C2_Witness ==
    /\ Len(delivered[Len(Objects)]) >= 2
    /\ put_log[1] # put_log[2]
    /\ put_log[2] = "power_manager"
    /\ n_put = MaxEvents

(***************************************************************************)
(* Supervisor and Terminate claims                                         *)
(***************************************************************************)
WatchedTasks == { Watched[i] : i \in 1..Len(Watched) }

\* C3: if a watched task's thread exits while the supervisor is running, then
\* eventually the threads of all watched tasks have exited and the supervisor's
\* thread has returned; the cascade never stays half way.
C3_Cascade ==
    ((\E t \in WatchedTasks : thread[t] = "exited") /\ thread["supervisor"] = "alive")
        ~> ((\A t \in WatchedTasks : thread[t] = "exited") /\ thread["supervisor"] = "exited")

C5_Terminate ==
    \A c \in Callers :
        call[c].pc = "return" =>
            IF call[c].saw_alive
            THEN /\ thread[call[c].target] = "exited"
                 /\ ~shall_run[call[c].target]
                 /\ call[c].joined
            ELSE /\ thread[call[c].target] = "exited"
                 /\ shall_run[call[c].target] = call[c].flag_before
                 /\ ~call[c].joined

\* both cases have happened: the supervisor's Terminate found a task running and has
\* returned, and main's later Terminate found the supervisor already returned
C5_Witness ==
    /\ call["main"].pc = "return"
    /\ ~call["main"].saw_alive
    /\ \E t \in WatchedTasks : term_count[t] = 1 /\ thread[t] = "exited" /\ ~shall_run[t]

(***************************************************************************)
(* Timer claims                                                            *)
(***************************************************************************)
\* C10 (as stated): is_expired() is true on a timer never started, false immediately
\* after start(d) with d > 0, true once d seconds have elapsed since that start,
\* including at exactly d seconds, and true again after stop().
C10_ExpiredAtExactlyD ==
    /\ timer_op = "init" => Timer_is_expired(timer, clock)
    /\ (timer_op = "start" /\ armed_for > 0 /\ clock = armed_at) =>
            ~Timer_is_expired(timer, clock)
    /\ (timer_op = "start" /\ armed_for > 0 /\ clock - armed_at >= armed_for) =>
            Timer_is_expired(timer, clock)
    /\ timer_op = "stop" => Timer_is_expired(timer, clock)

\* C10 (amended): is_expired() is true on a timer never started, false from start(d)
\* with d > 0 until d seconds have elapsed, still false at exactly d seconds, true
\* once more than d seconds have elapsed, and true again after stop().
C10_Timer ==
    /\ timer_op = "init" => Timer_is_expired(timer, clock)
    /\ (timer_op = "start" /\ armed_for > 0) =>
            (Timer_is_expired(timer, clock) <=> clock - armed_at > armed_for)
    /\ timer_op = "stop" => Timer_is_expired(timer, clock)

\* the timer was armed with d > 0 exactly d seconds ago
C10_Witness ==
    /\ timer_op = "start"
    /\ armed_for > 0
    /\ clock = armed_at + armed_for
    /\ ~Timer_is_expired(timer, clock)


(***************************************************************************)
(* Claims about the controller's tick                                      *)
(***************************************************************************)
\* the steps of a tick, as pairs of positions of the worker
TickBegins == pm_pc = "while" /\ pm_pc' \in {"display_init", "display"}
DisplayInitStep == pm_pc = "display_init" /\ pm_pc' = "display"
DisplayStep == pm_pc = "display" /\ pm_pc' = "camera"
CameraStep == pm_pc = "camera" /\ pm_pc' = "reset"

\* the event a step has put on the queue, and whether it has put one
Emits == n_put' = n_put + 1
Emitted == queue'[Len(queue')]

\* C11: a tick sets the initialize flag, and runs the initialize part of its handlers,
\* if and only if the mode it resolves differs from the stored mode (None before the
\* first tick); it stores the resolved mode, so that a tick resolving the mode of the
\* tick before it initializes nothing.
C11_Initialize ==
    [][ /\ TickBegins =>
            /\ current_mode' = get_current_mode(schedules, now_weekday, now_time)
            /\ initialize' <=> (current_mode' # current_mode)
            /\ (pm_pc' = "display_init") <=> (current_mode' # current_mode)
        /\ ~TickBegins => UNCHANGED <<current_mode, initialize>>
        /\ (CameraStep /\ ~initialize /\ ~Emits) => UNCHANGED camera_stream_timer
      ]_vars

\* a tick that resolved the mode of the tick before it and runs without initializing
C11_Witness ==
    /\ pm_pc = "display"
    /\ ~initialize
    /\ current_mode = CAMERA_MOTION
    /\ Len(queue) >= 2

\* the emitted control event asks for the value its output latch already has
EmitsDuplicate ==
    /\ Emits
    /\ \/ Emitted.signal = DISPLAY_POWER_CONTROL /\ Emitted.flag = out_display_power
       \/ Emitted.signal = CAMERA_STREAM_CONTROL /\ Emitted.flag = out_camera_stream
       \/ Emitted.signal = SLIDESHOW_CONTROL /\ Emitted.flag = out_slideshow

\* C12 (as claimed): no step of the controller, on ordinary ticks and on ticks that
\* switch mode alike, emits a control event whose enable value equals the current
\* value of its output latch.
C12_NoDuplicate == [][~EmitsDuplicate]_vars

\* C12 (amended): outside the initialize part of the display-power handler no step
\* emits a control event whose enable value equals the current value of its output
\* latch; in particular the camera-stream events alternate.
C12_NoDuplicateOutsideInit == [][~DisplayInitStep => ~EmitsDuplicate]_vars

\* the controller has switched the camera stream on and off again
C12_Witness ==
    \E i, j \in 1..Len(queue) :
        /\ i < j
        /\ queue[i].signal = CAMERA_STREAM_CONTROL /\ queue[i].flag
        /\ queue[j].signal = CAMERA_STREAM_CONTROL /\ ~queue[j].flag

\* the step has appended exactly the given control event to the queue
EmitsControl(signal, enable) ==
    /\ Emits
    /\ Len(queue') = Len(queue) + 1
    /\ Emitted.signal = signal
    /\ Emitted.flag = enable

\* C13: in ALWAYS_ON with camera motion latched false and the stream off, the
\* camera-stream handler of a tick with a Short press latched emits
\* CameraStreamControl(true) and arms the camera-stream timer for 30 seconds from
\* now; from then on, in the ticks of that mode with camera motion latched false, the
\* stream is left on and nothing is emitted while not more than 30 seconds have
\* passed, and the first tick after that emits CameraStreamControl(false).
C13_ShortPressHold ==
    [][ (CameraStep /\ current_mode = ALWAYS_ON /\ ~in_camera_motion) =>
            /\ (~out_camera_stream /\ in_button_press = SHORT_PRESS) =>
                  /\ EmitsControl(CAMERA_STREAM_CONTROL, TRUE)
                  /\ out_camera_stream'
                  /\ camera_stream_timer' = [seconds |-> 30, start_time |-> clock]
            /\ (out_camera_stream /\ ~initialize /\ camera_stream_timer.seconds = 30) =>
                  IF clock > camera_stream_timer.start_time + 30
                  THEN EmitsControl(CAMERA_STREAM_CONTROL, FALSE) /\ ~out_camera_stream'
                  ELSE ~Emits /\ out_camera_stream'
      ]_vars

\* the stream was started by a Short press in ALWAYS_ON and has been switched off by
\* the first tick after the 30 seconds, camera motion being false
C13_Witness ==
    /\ current_mode = ALWAYS_ON
    /\ pm_pc = "reset"
    /\ ~in_camera_motion
    /\ camera_stream_timer.seconds = 30
    /\ clock > camera_stream_timer.start_time + 30
    /\ ~out_camera_stream
    /\ Len(queue) >= 2
    /\ queue[Len(queue)].signal = CAMERA_STREAM_CONTROL /\ ~queue[Len(queue)].flag
    /\ queue[Len(queue) - 1].signal = CAMERA_STREAM_CONTROL /\ queue[Len(queue) - 1].flag

\* C14: in ALWAYS_ON the display-power handler of a tick, with the display latch on,
\* emits DisplayPowerControl(false) if a Long press is latched and leaves the display
\* on, emitting nothing, if a Short press or no press is latched; with the display
\* latch off it emits DisplayPowerControl(true) if any press is latched.
C14_LongPressTogglesDisplay ==
    [][ (DisplayStep /\ current_mode = ALWAYS_ON) =>
            /\ (out_display_power /\ in_button_press = LONG_PRESS) =>
                  EmitsControl(DISPLAY_POWER_CONTROL, FALSE) /\ ~out_display_power'
            /\ (out_display_power /\ in_button_press \in {NoPress, SHORT_PRESS}) =>
                  ~Emits /\ out_display_power'
            /\ (~out_display_power /\ in_button_press \in {SHORT_PRESS, LONG_PRESS}) =>
                  EmitsControl(DISPLAY_POWER_CONTROL, TRUE) /\ out_display_power'
      ]_vars

\* the display was switched off by a Long press in ALWAYS_ON and a later Long press
\* has switched it on again
C14_Witness ==
    /\ current_mode = ALWAYS_ON
    /\ pm_pc = "camera"
    /\ in_button_press = LONG_PRESS
    /\ out_display_power
    /\ Len(queue) >= 2
    /\ queue[Len(queue)].signal = DISPLAY_POWER_CONTROL /\ queue[Len(queue)].flag
    /\ queue[Len(queue) - 1].signal = DISPLAY_POWER_CONTROL /\ ~queue[Len(queue) - 1].flag

\* C15 (as claimed): in ALWAYS_ON with the display latch off, the display-power
\* handler of a tick with the camera-motion latch true switches the display on, even
\* when no press is latched.
C15_CameraMotionWakesDisplay ==
    [][ (DisplayStep /\ current_mode = ALWAYS_ON /\ ~out_display_power
            /\ in_camera_motion) => out_display_power' ]_vars

\* C15 (amended): in ALWAYS_ON with the display latch off, the display-power handler
\* of a tick switches the display on if and only if a button press is latched; the
\* camera-motion latch does not matter.
C15_OnlyPressWakesDisplay ==
    [][ (DisplayStep /\ current_mode = ALWAYS_ON /\ ~out_display_power) =>
            (out_display_power' <=> in_button_press # NoPress) ]_vars

\* the display-power handler has left the display off in ALWAYS_ON although camera
\* motion is latched
C15_Witness ==
    /\ current_mode = ALWAYS_ON
    /\ pm_pc = "camera"
    /\ ~initialize
    /\ in_camera_motion
    /\ in_button_press = NoPress
    /\ ~out_display_power
    /\ out_camera_stream

\* C16: in MOTION_SENSOR with the display latch off, the display-power handler of a
\* tick that finds the sensor-motion latch true emits DisplayPowerControl(true) and
\* arms the display-power timer, from now, with the motion timeout given at startup.
C16_ConfiguredTimeout ==
    [][ (DisplayStep /\ current_mode = MOTION_SENSOR /\ ~out_display_power
            /\ in_sensor_motion) =>
            /\ EmitsControl(DISPLAY_POWER_CONTROL, TRUE)
            /\ out_display_power'
            /\ display_power_timer' = [seconds |-> motion_timeout, start_time |-> clock]
      ]_vars

\* C17: in MOTION_SENSOR the display-power handler of a tick that finds the display
\* latch on switches the display off if and only if the sensor-motion latch is false,
\* more than the 600 seconds the timer was armed with have passed (or it is not
\* armed) and the camera-stream latch is off; while the sensor-motion latch is true it
\* re-arms the timer from now and leaves the display on.
C17_DisplayHold ==
    [][ (DisplayStep /\ current_mode = MOTION_SENSOR /\ out_display_power) =>
            /\ ~out_display_power' <=>
                  /\ ~in_sensor_motion
                  /\ \/ display_power_timer.start_time = 0
                     \/ clock > display_power_timer.start_time + 600
                  /\ ~out_camera_stream
            /\ ~out_display_power' => EmitsControl(DISPLAY_POWER_CONTROL, FALSE)
            /\ out_display_power' => ~Emits
            /\ in_sensor_motion =>
                  /\ display_power_timer' = [seconds |-> 600, start_time |-> clock]
                  /\ out_display_power'
            /\ ~in_sensor_motion => UNCHANGED display_power_timer
      ]_vars

\* the display was switched on by sensor motion in MOTION_SENSOR and, the motion gone
\* and the stream off, has been switched off by a tick more than 600 seconds later
C17_Witness ==
    /\ current_mode = MOTION_SENSOR
    /\ pm_pc = "camera"
    /\ ~initialize
    /\ ~in_sensor_motion
    /\ ~out_camera_stream
    /\ display_power_timer.seconds = 600
    /\ clock > display_power_timer.start_time + 600
    /\ ~out_display_power
    /\ queue[Len(queue)].signal = DISPLAY_POWER_CONTROL /\ ~queue[Len(queue)].flag

\* C18 (as claimed): at the end of every tick in CAMERA_MOTION the display latch is on
\* if and only if the camera-stream latch is on.
C18_MirrorAtEndOfTick ==
    (current_mode = CAMERA_MOTION /\ pm_pc \in {"reset", "while"}) =>
        (out_display_power <=> out_camera_stream)

\* C18 (amended): in every tick in CAMERA_MOTION, once the display-power handler has
\* run and until the camera-stream handler runs, the display latch is on if and only
\* if the camera-stream latch is on; and if at the end of a tick the two differ, the
\* camera-stream handler of that tick has just changed the stream latch.
C18_MirrorAfterDisplayHandler ==
    /\ (current_mode = CAMERA_MOTION /\ pm_pc = "camera") =>
          (out_display_power <=> out_camera_stream)
    /\ (current_mode = CAMERA_MOTION /\ pm_pc \in {"reset", "while"}
          /\ out_display_power # out_camera_stream) =>
          /\ queue # <<>>
          /\ queue[Len(queue)].signal = CAMERA_STREAM_CONTROL
          /\ queue[Len(queue)].flag = out_camera_stream

\* in CAMERA_MOTION the display-power handler has switched the display on after the
\* stream, a tick later
C18_Witness ==
    /\ current_mode = CAMERA_MOTION
    /\ pm_pc = "camera"
    /\ ~initialize
    /\ out_display_power
    /\ out_camera_stream
    /\ queue[Len(queue)].signal = DISPLAY_POWER_CONTROL /\ queue[Len(queue)].flag

\* the SlideshowControl events emitted so far
SlideshowEvents == SelectSeq(queue, LAMBDA e : e.signal = SLIDESHOW_CONTROL)

\* C19: the controller emits SlideshowControl(true) before its first tick, as the first
\* event it emits, and no other SlideshowControl event after it: the queue, which
\* keeps every emitted event here, holds none before the worker has started and
\* exactly this one after.
C19_SlideshowOnce ==
    /\ pm_pc = "start" => queue = <<>>
    /\ pm_pc # "start" =>
          /\ Len(SlideshowEvents) = 1
          /\ queue[1].signal = SLIDESHOW_CONTROL
          /\ queue[1].flag
          /\ out_slideshow

\* ticks in two modes, with input events and control events, and still one
\* SlideshowControl event
C19_Witness ==
    /\ Len(queue) >= 4
    /\ Len(SlideshowEvents) = 1
    /\ current_mode = ALWAYS_ON
    /\ \E i \in 1..Len(queue) : queue[i].signal = DISPLAY_POWER_CONTROL /\ ~queue[i].flag
    /\ in_camera_motion
    /\ pm_pc = "done"

\* C20: a GET request for /?Message=start appends exactly one
\* CameraMotionChanged(true) to the queue and is answered 200, one for /?Message=stop
\* appends exactly one CameraMotionChanged(false) and is answered 200, and one for any
\* other path is answered 400 and leaves the queue as it was.
C20_HttpHandler ==
    [][ http_path' # http_path =>
            IF http_path' \in {"/?Message=start", "/?Message=stop"}
            THEN /\ http_response' = 200
                 /\ queue' = Append(queue, queue'[Len(queue')])
                 /\ n_put' = n_put + 1
                 /\ queue'[Len(queue')].signal = CAMERA_MOTION_CHANGED
                 /\ queue'[Len(queue')].flag <=> (http_path' = "/?Message=start")
            ELSE /\ http_response' = 400
                 /\ UNCHANGED <<queue, n_put, put_log>>
      ]_vars

\* a request with an unknown path was answered 400 after the requests for start and
\* stop had each put their event
C20_Witness ==
    /\ http_path = "/?Message=bogus"
    /\ http_response = 400
    /\ n_put = 2
    /\ put_log = << "camera_motion", "camera_motion" >>

(***************************************************************************)
(* Claims about shutdown and startup                                       *)
(***************************************************************************)
\* C21: once main has left its try block (the supervisor returned, or a keyboard
\* interrupt or the OSError of the SIGTERM handler was raised), GPIO.cleanup()
\* eventually runs and main ends; and if the supervisor had been started, main reaches
\* GPIO.cleanup() only when the supervisor and every watched task have stopped.
C21_InterruptShutdown ==
    /\ [](( main_pc.at \in {"cleanup", "done"} /\ thread["supervisor"] # "none") =>
            /\ thread["supervisor"] = "exited"
            /\ \A t \in WatchedTasks : thread[t] = "exited")
    /\ (main_pc.at = "finally") ~> (main_pc.at = "done")

\* C22: once the dispatcher's thread has exited, no event is taken from the queue and
\* no dispatch of any object is called: the events pending in the queue stay there
\* (producers may still add to them), and no latch or actuator changes by a delivery.
C22_NoDeliveryAfterStop ==
    [][ thread["event_dispatcher"] = "exited" =>
            /\ UNCHANGED <<got_log, delivered, actuator, in_vars, ed_pc, ed_event, ed_i>>
            /\ Len(queue') >= Len(queue)
            /\ SubSeq(queue', 1, Len(queue)) = queue
      ]_vars

\* the dispatcher has stopped on Terminate after delivering one event, with another
\* still pending in the queue, and a producer has put a third one since
C22_Witness ==
    /\ thread["event_dispatcher"] = "exited"
    /\ ed_pc = "done"
    /\ got_log = <<1>>
    /\ Len(queue) = 2

\* a task has been started, or an event has been enqueued
StartupPassed ==
    \/ \E t \in DOMAIN thread : thread[t] # "none"
    \/ n_put # 0
    \/ queue # <<>>

\* C23: when the value of --listen or of --schedule is malformed (not ip:port; a
\* schedule without exactly four fields, with an unknown weekday or mode, with a
\* malformed time, or with an end time other than 00:00 that is not after the
\* start), the process never gets past its setup: no task is ever started, no
\* event is ever enqueued, and once it has left the setup it has exited with a
\* non-zero status.
C23_FatalAtStartup ==
    (arg_listen \in MalformedListenArgs \/ arg_schedule \in MalformedScheduleArgs) =>
        /\ ~StartupPassed
        /\ main_pc.at \in {"setup", "exited"}
        /\ main_pc.at = "exited" => exit_status # 0

C23_Witness ==
    /\ arg_listen \in WellFormedListenArgs
    /\ arg_schedule \in MalformedScheduleArgs
    /\ main_pc.at = "exited"
    /\ exit_status = EXIT_MINUS_ONE
    /\ ~StartupPassed

(***************************************************************************)
(* Claims about the dispatcher's calls landing during a tick               *)
(***************************************************************************)
\* the latched press is cleared by the reset or replaced by a dispatched press
PressGoes ==
    /\ in_button_press # NoPress
    /\ \/ in_button_press' # in_button_press
       \/ press_read # {} /\ press_read' = {}

\* C24: every press dispatched to the controller is observed by the handlers of a
\* tick: whenever a latched press is cleared by the end-of-tick reset or replaced
\* by a later press, both the display-power handler and the camera-stream handler
\* have run with it in place.
C24_PressObserved == [][PressGoes => press_read = Handlers]_vars

\* C25: within a tick the display-power handler and the camera-stream handler
\* find the same values in the three input latches, those in place when the tick
\* began.
C25_SameLatches ==
    [][ /\ DisplayStep => Latches = tick_latches
        /\ CameraStep => Latches = tick_latches /\ Latches = display_latches ]_vars

(***************************************************************************)
(* Claims about the handlers of a tick                                     *)
(***************************************************************************)
\* the rest state of the display in a mode
RestState(mode) == mode = ALWAYS_ON

\* C26: in a tick that switches mode, the initialize part of the display-power
\* handler stops the display-power timer and sets the display latch to the rest
\* state of the new mode (on for ALWAYS_ON, off otherwise), and the normal logic
\* of the handler starts from there; the camera-stream handler of that tick
\* evaluates its logic with the camera-stream timer stopped: a stream that is on
\* without camera motion is switched off whatever its timer held, and the timer
\* is left stopped unless a short press arms it anew.
C26_InitializeFirst ==
    /\ []((pm_pc = "display" /\ initialize) =>
              /\ display_power_timer = Timer_stop
              /\ out_display_power = RestState(current_mode))
    /\ [][ /\ (TickBegins /\ initialize') => pm_pc' = "display_init"
           /\ DisplayInitStep =>
                 /\ initialize
                 /\ display_power_timer' = Timer_stop
                 /\ out_display_power' = RestState(current_mode)
           /\ (CameraStep /\ initialize) =>
                 /\ (out_camera_stream /\ ~in_camera_motion) => ~out_camera_stream'
                 /\ \/ camera_stream_timer' = Timer_stop
                    \/ /\ ~out_camera_stream /\ in_button_press = SHORT_PRESS
                       /\ camera_stream_timer' = Timer_start(camera_stream_timeout, clock)
         ]_vars

\* a tick that switches mode reaches the camera-stream handler while the stream is on
\* without camera motion and its timer is armed and not expired
C26_Witness ==
    /\ pm_pc = "camera"
    /\ initialize
    /\ out_camera_stream
    /\ ~in_camera_motion
    /\ camera_stream_timer # Timer_stop
    /\ ~Timer_is_expired(camera_stream_timer, clock)

C28_StreamKeepsDisplayOn ==
    /\ []((pm_pc = "camera" /\ current_mode = MOTION_SENSOR /\ out_camera_stream) =>
             out_display_power)
    /\ [][ /\ pm_pc \in {"while", "display_init", "display"} => UNCHANGED out_camera_stream
           /\ pm_pc \in {"camera", "reset"} => UNCHANGED out_display_power
         ]_vars

\* in MOTION_SENSOR the display-power handler has left the display on for the stream
\* alone: no sensor motion is latched and the display-power timer is expired
C28_Witness ==
    /\ pm_pc = "camera"
    /\ current_mode = MOTION_SENSOR
    /\ ~initialize
    /\ out_camera_stream
    /\ out_display_power
    /\ ~in_sensor_motion
    /\ display_power_timer # Timer_stop
    /\ Timer_is_expired(display_power_timer, clock)

\* the positions in the queue of the control events of an output
ControlEvents(signal) == { i \in 1..Len(queue) : queue[i].signal = signal }

\* the control event of an output emitted last
LastControl(signal) ==
    queue[CHOOSE i \in ControlEvents(signal) : \A j \in ControlEvents(signal) : j <= i]

\* the latch of an output is the enable value of the control event emitted last for it
Mirrors(latch, signal) ==
    ControlEvents(signal) # {} => latch = LastControl(signal).flag

ResetStep == pm_pc = "reset" /\ pm_pc' = "while"

\* C30: the last step of every tick leaves the button-press latch none, in every
\* mode and whether or not a handler used the press; and the press a handler finds
\* latched has been read by no handler of an earlier tick: the display-power
\* handler is the first to read it, the camera-stream handler follows at most the
\* display-power handler of its own tick.
C30_PressOneTick ==
    [][ /\ ResetStep => in_button_press' = NoPress
        /\ (TickBegins /\ in_button_press # NoPress) => press_read = {}
        /\ (DisplayStep /\ in_button_press # NoPress) => press_read = {}
        /\ (CameraStep /\ in_button_press # NoPress) => press_read \subseteq {"display"}
      ]_vars

\* in ALWAYS_ON a tick has switched the display off on a Long press and has ended: the
\* press is gone
C30_Witness ==
    /\ pm_pc = "while"
    /\ current_mode = ALWAYS_ON
    /\ ~initialize
    /\ ~out_display_power
    /\ in_button_press = NoPress
    /\ press_read = {}
    /\ queue[Len(queue)].signal = DISPLAY_POWER_CONTROL /\ ~queue[Len(queue)].flag

\* the step is the dispatch of an event of the given signal carrying the given boolean
DispatchOf(signal, motion) ==
    \E event \in InputEvents :
       /\ event.signal = signal
       /\ event.flag = motion
       /\ pm_dispatch(event)

\* C31: the camera-motion latch changes only in the dispatch of a
\* CameraMotionChanged event and the sensor-motion latch only in the dispatch of a
\* SensorMotionChanged event, each taking the boolean of the event; no step of
\* the controller's thread (tick, mode switch) changes them, and a step that
\* changes one of them changes neither the other, nor the button latch, the
\* mode, the output latches, the timers, the queue or the position of the tick.
C31_MotionLatchFrame ==
    [][ /\ in_camera_motion' # in_camera_motion =>
              /\ DispatchOf(CAMERA_MOTION_CHANGED, in_camera_motion')
              /\ UNCHANGED in_sensor_motion
        /\ in_sensor_motion' # in_sensor_motion =>
              /\ DispatchOf(SENSOR_MOTION_CHANGED, in_sensor_motion')
              /\ UNCHANGED in_camera_motion
        /\ (in_camera_motion' # in_camera_motion \/ in_sensor_motion' # in_sensor_motion) =>
              UNCHANGED <<in_button_press, out_vars, current_mode, initialize,
                          camera_stream_timer, display_power_timer, queue, n_put, pm_pc>>
        /\ (pm_pc' # pm_pc \/ current_mode' # current_mode \/ Emits) =>
              UNCHANGED <<in_camera_motion, in_sensor_motion>>
      ]_vars

\* camera motion was latched, a tick has switched the stream on for it and has ended,
\* and the latch is still true
C31_Witness ==
    /\ pm_pc = "while"
    /\ ~initialize
    /\ current_mode = CAMERA_MOTION
    /\ in_camera_motion
    /\ ~in_sensor_motion
    /\ in_button_press = NoPress
    /\ out_camera_stream
    /\ out_display_power

(***************************************************************************)
(* Claims about the supervisor, the shutdown cascade and the dispatcher    *)
(***************************************************************************)
\* the supervisor tests is_running of the task at sup_i
PollStep == sup_pc = "poll" /\ (sup_i' # sup_i \/ sup_pc' # sup_pc)

\* another thread is in dispatch(Terminate) on the supervisor, at self.__shall_run = False
ExternalStop ==
    \E c \in Callers : call[c].pc = "stop" /\ call[c].target = "supervisor"

\* C32: a poll of the supervisor that finds a watched task not running clears the
\* supervisor's run flag in that step; the flag, once cleared, is never set again,
\* so that the loop test after the pass leads to the shutdown and not to another
\* pass; and the flag is cleared only by such a poll or by a stop from outside.
C32_SupervisorStopsItself ==
    [][ /\ (PollStep /\ ~is_running(Watched[sup_i])) => ~shall_run'["supervisor"]
        /\ (thread["supervisor"] = "alive" /\ ~shall_run["supervisor"]) =>
              /\ ~shall_run'["supervisor"]
              /\ sup_pc' # sup_pc => sup_pc' # "poll"
        /\ (shall_run["supervisor"] /\ ~shall_run'["supervisor"]) =>
              \/ PollStep /\ ~is_running(Watched[sup_i])
              \/ ExternalStop
      ]_vars

\* a task's thread has ended on its own, the poll has seen it and the supervisor has
\* left its loop for the shutdown, with no stop from outside
C32_Witness ==
    /\ main_pc.at = "join"
    /\ call["main"] = NoCall
    /\ thread["power_manager"] = "exited"
    /\ shall_run["power_manager"]
    /\ thread["supervisor"] = "alive"
    /\ ~shall_run["supervisor"]
    /\ sup_pc = "terminate"

\* C33: a Terminate dispatched to the CameraMotion task after its start() leads
\* to the dispatch call returning with the thread of the task exited, at whatever
\* moment the call is entered, the moment before the HTTP server object exists
\* included.
C33_CameraMotionTerminates ==
    \A c \in Callers :
        (call[c].pc = "cm_check") ~>
            (call[c].pc = "return" /\ call[c].target = "camera_motion"
                /\ thread["camera_motion"] = "exited")

\* a step of the dispatcher's thread
DispatcherOwnStep == ed_pc' # ed_pc \/ ed_i' # ed_i

\* the steps the dispatcher's thread has left at most once its run flag is cleared
StepsLeft ==
    CASE ed_pc = "done" -> 0
      [] ed_pc = "while" -> 1
      [] ed_pc = "for" -> 2 + Len(Objects) - ed_i
      [] ed_pc = "get" -> 2 + Len(Objects)
      [] ed_pc = "empty" -> 3 + Len(Objects)

\* the calls of get() the dispatcher's thread has left at most once its flag is cleared
GetsLeft == IF ed_pc \in {"empty", "get"} THEN 1 ELSE 0

\* C34: the dispatcher is at get() only with a non-empty queue, so the call never
\* blocks and a step of its thread is always possible while it is alive; once its
\* run flag is cleared, every step of its thread brings it nearer to its exit: it
\* gets at most one more event, finishes delivering it, and exits; the producers'
\* steps change nothing of this.
C34_DispatcherStops ==
    /\ [](ed_pc = "get" => queue # <<>>)
    /\ []((ed_pc = "done") <=> (thread["event_dispatcher"] = "exited"))
    /\ [](thread["event_dispatcher"] = "alive" =>
             ENABLED (ed_while \/ ed_empty \/ ed_get \/ ed_for))
    /\ [][ ~shall_run["event_dispatcher"] =>
              /\ StepsLeft' <= StepsLeft
              /\ GetsLeft' <= GetsLeft
              /\ DispatcherOwnStep => StepsLeft' < StepsLeft
              /\ got_log' # got_log => GetsLeft' < GetsLeft
         ]_vars

\* the run flag was cleared while the dispatcher was delivering an event to the
\* objects, with another event pending in the queue
C34_Witness ==
    /\ thread["event_dispatcher"] = "alive"
    /\ ~shall_run["event_dispatcher"]
    /\ ed_pc = "for"
    /\ ed_i > 1
    /\ queue # <<>>

\* the supervisor enters dispatch(Terminate) on the task at position i of its list
TerminateSent(i) == term_count'[Watched[i]] = term_count[Watched[i]] + 1

Pending(signal) == \E i \in 1..Len(queue) : queue[i].signal = signal

\* the dispatcher holds an event it has not yet handed to every object
MidDelivery == ed_pc = "for"

ShortPressStep == CameraStep /\ in_button_press = SHORT_PRESS

\* the step leaves the timer of the stream running from the present instant
ArmsStreamTimer ==
    /\ camera_stream_timer' = Timer_start(camera_stream_timeout, clock)
    /\ camera_stream_timer' # camera_stream_timer

\* C37 (as claimed): the camera-stream handler of a tick with a Short press latched
\* arms the camera-stream timer only if it finds the stream latch off and camera
\* motion latched false; if it finds the stream latch on, or camera motion latched
\* true, it leaves the camera-stream timer unchanged.
C37_PressLeavesTimer ==
    [][ ShortPressStep =>
            /\ ArmsStreamTimer => (~out_camera_stream /\ ~in_camera_motion)
            /\ (out_camera_stream \/ in_camera_motion) => UNCHANGED camera_stream_timer
      ]_vars

\* C37 (amended): the camera-stream handler of a tick with a Short press latched
\* arms the camera-stream timer only if it finds the stream latch off and camera
\* motion latched false; if it finds the stream latch on, or camera motion latched
\* true, it leaves the camera-stream timer unchanged in a tick that does not switch
\* mode and stopped in a tick that does, so that the hold is neither started nor
\* extended.
C37_PressNeverExtendsHold ==
    [][ ShortPressStep =>
            /\ ArmsStreamTimer => (~out_camera_stream /\ ~in_camera_motion)
            /\ (out_camera_stream \/ in_camera_motion) =>
                    camera_stream_timer' = IF initialize THEN Timer_stop
                                           ELSE camera_stream_timer
      ]_vars

\* the camera-stream handler of a tick that does not switch mode has run with a Short
\* press latched, the stream on and camera motion latched false, and the timer of the
\* stream still runs from an earlier instant
C37_Witness ==
    /\ pm_pc = "reset"
    /\ ~initialize
    /\ in_button_press = SHORT_PRESS
    /\ ~in_camera_motion
    /\ out_camera_stream
    /\ camera_stream_timer.seconds = camera_stream_timeout
    /\ camera_stream_timer.start_time # 0
    /\ camera_stream_timer.start_time < clock

\* the camera-stream handler of a tick that switches mode runs with the stream on
SwitchStepStreamOn == CameraStep /\ initialize /\ out_camera_stream

\* the stream is held by the timer of a Short press alone
HeldByPress ==
    /\ ~in_camera_motion
    /\ camera_stream_timer # Timer_stop
    /\ ~Timer_is_expired(camera_stream_timer, clock)

\* C38: the camera-stream handler of a tick that switches mode, finding the stream on
\* with camera motion latched false and the camera-stream timer armed and not
\* expired, stops the timer and emits CameraStreamControl(false) in that tick; finding
\* the stream on with camera motion latched true, it emits nothing and leaves the
\* stream latch on.
C38_SwitchEndsHold ==
    [][ SwitchStepStreamOn =>
            /\ HeldByPress =>
                  /\ camera_stream_timer' = Timer_stop
                  /\ EmitsControl(CAMERA_STREAM_CONTROL, FALSE)
                  /\ ~out_camera_stream'
            /\ in_camera_motion =>
                  /\ ~Emits
                  /\ UNCHANGED queue
                  /\ out_camera_stream'
      ]_vars

\* the camera-stream handler of a tick that switches mode has switched the stream off
\* and left its timer stopped, at an instant at which no hold armed since the start
\* can have expired
C38_Witness ==
    /\ pm_pc = "reset"
    /\ initialize
    /\ ~in_camera_motion
    /\ ~out_camera_stream
    /\ camera_stream_timer = Timer_stop
    /\ clock < 1 + camera_stream_timeout
    /\ Len(queue) >= 2
    /\ queue[Len(queue)].signal = CAMERA_STREAM_CONTROL /\ ~queue[Len(queue)].flag
    /\ \E i \in 1..(Len(queue) - 1) :
          queue[i].signal = CAMERA_STREAM_CONTROL /\ queue[i].flag

(***************************************************************************)
(* Claims about a failure during startup                                   *)
(***************************************************************************)
\* C39: when main ends after a failure of its try block that came before the
\* supervisor was started, every watched task it had started has been sent
\* Terminate and its thread has exited: no task thread is left running.
C39_StartedTasksStopped ==
    (main_pc.at = "done" /\ thread["supervisor"] = "none") =>
        \A t \in WatchedTasks :
            thread[t] # "none" => (thread[t] = "exited" /\ term_count[t] >= 1)

(***************************************************************************)
(* Specifications                                                          *)
(***************************************************************************)
\* the Timer driven by arbitrary callers while time passes
InitTimer ==
    /\ TimerInitVars
    /\ SchedInitVars
    /\ QueueInitVars
    /\ DispatcherInitVars
    /\ LatchInitVars
    /\ ThreadsStarted
    /\ LifeInitVars
    /\ PMInitVars
    /\ StartupInitVars
    /\ ObsInitVars

NextTimer ==
    \/ TimerStart /\ UNCHANGED <<sched_vars, system_vars>>
    \/ TimerStop /\ UNCHANGED <<sched_vars, system_vars>>
    \/ ClockAdvance /\ UNCHANGED <<sched_vars, system_vars>>

SpecTimer == InitTimer /\ [][NextTimer]_vars

\* schedule resolution for every schedule list get_schedules can return
InitSchedule ==
    /\ TimerInitVars
    /\ schedules \in ScheduleLists
    /\ now_weekday = 0
    /\ now_time = 0
    /\ resolved = None
    /\ QueueInitVars
    /\ DispatcherInitVars
    /\ LatchInitVars
    /\ ThreadsStarted
    /\ LifeInitVars
    /\ PMInitVars
    /\ StartupInitVars
    /\ ObsInitVars

NextSchedule ==
    \/ WallClockAdvance /\ UNCHANGED <<timer_vars, system_vars>>
    \/ GetCurrentMode /\ UNCHANGED <<timer_vars, system_vars>>

SpecSchedule == InitSchedule /\ [][NextSchedule]_vars

\* the producers, the queue and the dispatcher with its registered objects
InitDispatch ==
    /\ TimerInitVars
    /\ SchedInitVars
    /\ QueueInitVars
    /\ DispatcherInitVars
    /\ LatchInitVars
    /\ ThreadsStarted
    /\ LifeInitVars
    /\ PMInitVars
    /\ StartupInitVars
    /\ ObsInitVars

NextDispatch ==
    \/ Button_button_state_change /\ UNCHANGED <<timer_vars, sched_vars, life_vars, pm_vars, startup_vars, obs_vars>>
    \/ MotionSensor_motion_detected /\ UNCHANGED <<timer_vars, sched_vars, life_vars, pm_vars, startup_vars, obs_vars>>
    \/ RequestHandler_do_GET /\ UNCHANGED <<timer_vars, sched_vars, life_vars, pm_vars, startup_vars, obs_vars>>
    \/ PowerManager_control /\ UNCHANGED <<timer_vars, sched_vars, life_vars, pm_vars, startup_vars, obs_vars>>
    \/ ed_while /\ UNCHANGED <<timer_vars, sched_vars, life_vars, pm_vars, startup_vars, obs_vars>>
    \/ ed_empty /\ UNCHANGED <<timer_vars, sched_vars, life_vars, pm_vars, startup_vars, obs_vars>>
    \/ ed_get /\ UNCHANGED <<timer_vars, sched_vars, life_vars, pm_vars, startup_vars, obs_vars>>
    \/ ed_for /\ UNCHANGED <<timer_vars, sched_vars, life_vars, pm_vars, startup_vars, obs_vars>>
    \/ EventDispatcher_terminate /\ UNCHANGED <<timer_vars, sched_vars, life_vars, pm_vars, startup_vars, obs_vars>>

SpecDispatch == InitDispatch /\ [][NextDispatch]_vars

\* main, the supervisor and the threads of the watched tasks
other_vars == <<timer_vars, sched_vars, queue_vars, in_vars, out_vars, pm_vars,
                startup_vars, obs_vars>>

InitSupervisor ==
    /\ TimerInitVars
    /\ SchedInitVars
    /\ QueueInitVars
    /\ DispatcherInitVars
    /\ LatchInitVars
    /\ ThreadsNotStarted
    /\ LifeInitVars
    /\ PMInitVars
    /\ StartupInitVars
    /\ ObsInitVars

MainStep ==
    \/ main_start /\ UNCHANGED <<other_vars, ed_vars>>
    \/ main_join /\ UNCHANGED <<other_vars, ed_vars>>
    \/ main_finally /\ UNCHANGED <<other_vars, ed_vars>>
    \/ main_dispatched /\ UNCHANGED <<other_vars, ed_vars>>
    \/ main_cleanup /\ UNCHANGED <<other_vars, ed_vars>>

SupervisorStep ==
    \/ sup_while /\ UNCHANGED <<other_vars, ed_vars>>
    \/ sup_poll /\ UNCHANGED <<other_vars, ed_vars>>
    \/ sup_sleep /\ UNCHANGED <<other_vars, ed_vars>>
    \/ sup_terminate /\ UNCHANGED <<other_vars, ed_vars>>
    \/ sup_terminate_next /\ UNCHANGED <<other_vars, ed_vars>>

DispatchStep(caller) ==
    \/ CameraMotion_dispatch(caller) /\ UNCHANGED <<other_vars, ed_vars>>
    \/ CameraMotion_dispatch_shutdown(caller) /\ UNCHANGED <<other_vars, ed_vars>>
    \/ ThreadedObject_dispatch(caller) /\ UNCHANGED <<other_vars, ed_vars>>
    \/ ThreadedObject_dispatch_stop(caller) /\ UNCHANGED <<other_vars, ed_vars>>
    \/ ThreadedObject_dispatch_join(caller) /\ UNCHANGED <<other_vars, ed_vars>>

CameraMotionStep ==
    \/ cm_create /\ UNCHANGED <<other_vars, ed_vars>>
    \/ cm_serve /\ UNCHANGED <<other_vars, ed_vars>>
    \/ cm_loop /\ UNCHANGED <<other_vars, ed_vars>>
    \/ cm_return /\ UNCHANGED <<other_vars, ed_vars>>

WorkerStep(task) ==
    \/ worker_while(task) /\ UNCHANGED <<other_vars, ed_vars>>
    \/ worker_body(task) /\ UNCHANGED <<other_vars, ed_vars>>

DispatcherStep ==
    \/ ed_while /\ UNCHANGED <<timer_vars, sched_vars, life_vars, pm_vars, startup_vars, obs_vars>>
    \/ ed_empty /\ UNCHANGED <<timer_vars, sched_vars, life_vars, pm_vars, startup_vars, obs_vars>>

NextSupervisor ==
    \/ MainStep
    \/ main_interrupt /\ UNCHANGED <<other_vars, ed_vars>>
    \/ SupervisorStep
    \/ \E caller \in Callers : DispatchStep(caller)
    \/ CameraMotionStep
    \/ \E task \in Workers : WorkerStep(task)
    \/ DispatcherStep
    \/ \E i \in 1..Len(Watched) : task_fails(Watched[i]) /\ UNCHANGED <<other_vars, ed_vars>>

SpecSupervisor == InitSupervisor /\ [][NextSupervisor]_vars

\* every thread that can take a step eventually takes one; interrupts and failures
\* need not happen
FairSpecSupervisor ==
    /\ SpecSupervisor
    /\ WF_vars(MainStep)
    /\ WF_vars(SupervisorStep)
    /\ \A caller \in Callers : WF_vars(DispatchStep(caller))
    /\ WF_vars(CameraMotionStep)
    /\ \A task \in Workers : WF_vars(WorkerStep(task))
    /\ WF_vars(DispatcherStep)

\* the controller's thread with the dispatcher's calls, the clock and the wall clock
InitController ==
    /\ TimerInitVars
    /\ schedules \in ControllerSchedules
    /\ now_weekday = 0
    /\ now_time \in ControllerInstants
    /\ resolved = None
    /\ QueueInitVars
    /\ DispatcherInitVars
    /\ LatchInitVars
    /\ ThreadsStarted
    /\ LifeInitVars
    /\ pm_pc = "start"
    /\ current_mode = None
    /\ initialize = FALSE
    /\ camera_stream_timer = Timer_init
    /\ display_power_timer = Timer_init
    /\ motion_timeout = DefaultMotionTimeout
    /\ StartupInitVars
    /\ ObsInitVars

NextController ==
    \/ pm_start /\ UNCHANGED obs_vars
    \/ pm_tick_begin /\ UNCHANGED obs_vars
    \/ pm_display_init /\ UNCHANGED obs_vars
    \/ pm_display /\ UNCHANGED obs_vars
    \/ pm_camera /\ UNCHANGED obs_vars
    \/ pm_reset /\ UNCHANGED obs_vars
    \/ pm_dispatch_input /\ UNCHANGED obs_vars
    \/ pm_dispatch_terminate /\ UNCHANGED obs_vars
    \/ pm_clock_advance
    \/ pm_wall_clock_advance

SpecController == InitController /\ [][NextController]_vars

\* main from its first line: the command line, then the tasks, the supervisor and
\* the shutdown
InitStartup ==
    /\ TimerInitVars
    /\ SchedInitVars
    /\ QueueInitVars
    /\ DispatcherInitVars
    /\ LatchInitVars
    /\ ThreadsNotStarted
    /\ worker_pc = [t \in Workers |-> "while"]
    /\ cm_pc = "create"
    /\ httpd = [created |-> FALSE, shutdown_request |-> FALSE, is_shut_down |-> FALSE]
    /\ sup_pc = "while"
    /\ sup_i = 0
    /\ term_count = [t \in {Watched[i] : i \in 1..Len(Watched)} |-> 0]
    /\ call = [c \in Callers |-> NoCall]
    /\ main_pc = MainAt("setup")
    /\ PMInitVars
    /\ arg_listen \in WellFormedListenArgs \cup MalformedListenArgs
    /\ arg_schedule \in WellFormedScheduleArgs \cup MalformedScheduleArgs
    /\ exit_status = 0
    /\ ObsInitVars

NextStartup ==
    \/ main_setup
    \/ NextSupervisor

SpecStartup == InitStartup /\ [][NextStartup]_vars

\* the controller's thread, the dispatcher's calls and the wall clock, with the record
\* of what the handlers of each tick observe; time.time() stands still

InitObserved ==
    /\ TimerInitVars
    /\ schedules \in ControllerSchedules
    /\ now_weekday = 0
    /\ now_time \in ControllerInstants
    /\ resolved = None
    /\ QueueInitVars
    /\ DispatcherInitVars
    /\ LatchInitVars
    /\ ThreadsStarted
    /\ LifeInitVars
    /\ pm_pc = "start"
    /\ current_mode = None
    /\ initialize = FALSE
    /\ camera_stream_timer = Timer_init
    /\ display_power_timer = Timer_init
    /\ motion_timeout = DefaultMotionTimeout
    /\ StartupInitVars
    /\ ObsInitVars

NextObserved ==
    \/ pm_start /\ UNCHANGED obs_vars
    \/ obs_tick_begin
    \/ pm_display_init /\ UNCHANGED obs_vars
    \/ obs_display
    \/ obs_camera
    \/ obs_reset
    \/ obs_dispatch_input
    \/ pm_dispatch_terminate /\ UNCHANGED obs_vars
    \/ pm_wall_clock_advance

SpecObserved == InitObserved /\ [][NextObserved]_vars

====
